---- MODULE Spec2Model ----
(***************************************************************************)
(* A model of prodmon-logic: the rule store of src/utils/learn.py          *)
(* (load_merged_rules, update_rules, learn_unknown), the response          *)
(* normalizer of src/api/gemini.py (standardize_single_response,           *)
(* format_standardized_output), the two detectors of src/api/gemini.py and *)
(* src/api/gemma3.py (analyze_screenshots_with_ocr) and the run of         *)
(* src/main.py (main).                                                     *)
(*                                                                         *)
(* A Python dict is a TLA+ function whose DOMAIN is the set of its keys,   *)
(* so `"k" in d` is "k" \in DOMAIN d and d.get("k", x) is Get(d, "k", x).  *)
(* A Python list is a sequence.                                            *)
(***************************************************************************)
EXTENDS Integers, Sequences, FiniteSets, TLC

VARIABLES
    docs,      \* the rule documents on disk: path -> file content
    dirs,      \* the directories that exist under rules/ (<< >> is rules/ itself)
    nWrites,   \* number of rule-document writes so far (bounded by MaxWrites)
    last,      \* the last rule-store call: its arguments and its outcome
    input,     \* the dict handed to the normalizer
    clock,     \* what the datetime.now() calls of the last normalization returned
    out,       \* what the last normalization returned
    det,       \* the detector's batch in progress: screenshots, raw results
    procs,     \* the update_rules calls in progress, each between read and write
    run        \* the run of main(): its position, its output, its exit code

storeVars == <<docs, dirs, nWrites, last>>
normVars == <<input, clock, out>>
detectVars == <<det>>
raceVars == <<procs>>
mainVars == <<run>>
vars == <<docs, dirs, nWrites, last, input, clock, out, det, procs, run>>

----------------------------------------------------------------------------
(* Bounds of the model. *)

MaxWrites == 2     \* rule-document writes explored per behaviour

----------------------------------------------------------------------------
(* Python values. *)

None == "<None>"

\* `if x:` for an optional string argument (None is falsy).
Truthy(x) == x # None

EmptyDict == [k \in {} |-> 0]

\* d.get(k, default)
Get(d, k, default) == IF k \in DOMAIN d THEN d[k] ELSE default

----------------------------------------------------------------------------
(* The rule documents.  Paths are relative to the rules/ directory.        *)

RoleArgs == {None, "developer"}
CompanyArgs == {None, "acme", "baseline"}

\* update_rules, the path resolution (the same three tiers as
\* load_merged_rules): rules/<role>/<company>.json, rules/<role>/baseline.json,
\* rules/baseline.json.
RulesPath(role, company) ==
    IF Truthy(role) /\ Truthy(company) THEN <<role, company \o ".json">>
    ELSE IF Truthy(role) THEN <<role, "baseline.json">>
    ELSE <<"baseline.json">>

Paths == {RulesPath(r, c) : r \in RoleArgs, c \in CompanyArgs}

\* The directory a path lies in.
Parent(p) == SubSeq(p, 1, Len(p) - 1)

\* File contents: no file, a file that is not valid JSON, or a JSON object.
Absent == [state |-> "absent"]
Malformed == [state |-> "malformed"]
Json(data) == [state |-> "json", data |-> data]

\* The rules a caller hands to update_rules.
Rules ==
    { [type |-> "prohibited", item |-> "Discord"],
      [type |-> "allowed", item |-> "VSCode"] }

\* A name for a document, used to tell the seeded entries of each scope apart.
Tag(p) == IF Len(p) = 1 THEN "global" ELSE p[1] \o "/" \o p[2]

\* Documents a run may find on disk: the two historical schemas (separate
\* allowed/prohibited arrays, one flat rules array).
LegacyDoc(p) ==
    Json([context |-> Tag(p),
          allowed |-> <<[keyword |-> "allowed@" \o Tag(p)]>>,
          prohibited |-> <<[keyword |-> "prohibited@" \o Tag(p)]>>])
FlatDoc(p) ==
    Json([context |-> Tag(p), description |-> "",
          rules |-> <<[type |-> "prohibited", item |-> "flat@" \o Tag(p)]>>])

SeedDocs(p) == {Absent, Malformed, LegacyDoc(p), FlatDoc(p)}

DirSets == { {<< >>}, {<< >>, <<"developer">>} }

\* The flat rule list of a document ([] for a missing file or key).
FlatRules(f) == IF f.state = "json" THEN Get(f.data, "rules", << >>) ELSE << >>

----------------------------------------------------------------------------
(* load_merged_rules *)

EmptyMerged == [raised |-> FALSE, allowed |-> << >>, prohibited |-> << >>]

\* A merge in which a narrower document's list replaces the broader one.
ReplaceMerged(merged, data) ==
    [merged EXCEPT !.allowed = Get(data, "allowed", @),
                   !.prohibited = Get(data, "prohibited", @)]

\* merged["allowed"].extend(data.get("allowed", [])) and the same for
\* "prohibited".
ExtendMerged(merged, data) ==
    [merged EXCEPT !.allowed = @ \o Get(data, "allowed", << >>),
                   !.prohibited = @ \o Get(data, "prohibited", << >>)]

\* One `if path.exists(): data = json.load(f); extend` block.  json.load
\* raises on a file that is not JSON, and the exception leaves the function.
LoadLayer(merged, f) ==
    IF merged.raised \/ f.state = "absent" THEN merged
    ELSE IF f.state = "malformed" THEN [merged EXCEPT !.raised = TRUE]
    ELSE ExtendMerged(merged, f.data)

load_merged_rules(fs, role, company) ==
    LET m1 == LoadLayer(EmptyMerged, fs[<<"baseline.json">>])
        m2 == IF Truthy(role)
              THEN LoadLayer(m1, fs[<<role, "baseline.json">>])
              ELSE m1
        m3 == IF Truthy(role) /\ Truthy(company)
              THEN LoadLayer(m2, fs[<<role, company \o ".json">>])
              ELSE m2
    IN m3

----------------------------------------------------------------------------
(* update_rules *)

\* rules_data = {"context": role or "baseline", "description": "", "rules": []}
NewRulesData(role) ==
    [context |-> IF Truthy(role) THEN role ELSE "baseline",
     description |-> "", rules |-> << >>]

\* A write that starts the rule list afresh instead of appending to it.
OverwriteRules(data, rule) ==
    IF "rules" \in DOMAIN data
    THEN [data EXCEPT !.rules = <<rule>>]
    ELSE data @@ [rules |-> <<rule>>]

\* rules_data.setdefault("rules", []).append(rule)
AddRule(data, rule) ==
    IF "rules" \in DOMAIN data
    THEN [data EXCEPT !.rules = Append(@, rule)]
    ELSE data @@ [rules |-> <<rule>>]

\* The whole of update_rules on the file system fs with directories ds:
\* the outcome (raised or not), the file system afterwards and the path
\* returned.  json.load raises on a malformed document before anything is
\* written; open(path, 'w') raises when the directory of the path does not
\* exist (update_rules never creates it), before any file is created.
update_rules(fs, ds, rule, role, company) ==
    LET rules_path == RulesPath(role, company)
        f == fs[rules_path]
    IN  IF f.state = "malformed" THEN
            [raised |-> TRUE, fs |-> fs, path |-> rules_path]
        ELSE
            LET rules_data == IF f.state = "json" THEN f.data
                              ELSE NewRulesData(role)
                written == AddRule(rules_data, rule)
            IN  IF Parent(rules_path) \notin ds THEN
                    [raised |-> TRUE, fs |-> fs, path |-> rules_path]
                ELSE
                    [raised |-> FALSE,
                     fs |-> [fs EXCEPT ![rules_path] = Json(written)],
                     path |-> rules_path]

----------------------------------------------------------------------------
(* learn_unknown: get_rule_from_llm, then update_rules.                     *)
(*                                                                         *)
(* A model response is a sequence of tokens: a ``` fence (with or without  *)
(* the json tag), a stretch of prose that is not JSON, or the text of one   *)
(* JSON object.                                                            *)

Fence == [t |-> "fence"]
Prose == [t |-> "prose"]
JsonText(v) == [t |-> "json", v |-> v]

Terms == {"Discord"}

\* What the model may answer to the rule prompt for an item: a rule for the
\* item, or a rule that names the item differently.
ModelObjects(item) ==
    { [type |-> "prohibited", item |-> item],
      [type |-> "allowed", item |-> "Other"] }

\* The shapes of a response that carries the object v: bare, fenced, fenced
\* with prose around the fence, prose before the object, an unclosed fence,
\* two objects in one fence; and the shapes that carry no object.
ModelTexts(item) ==
    UNION { { <<JsonText(v)>>,
              <<Fence, JsonText(v), Fence>>,
              <<Prose, Fence, JsonText(v), Fence, Prose>>,
              <<Prose, JsonText(v)>>,
              <<Fence, JsonText(v)>>,
              <<Fence, JsonText(v), JsonText(v), Fence>>,
              <<JsonText(v), Fence, Prose, Fence>> } : v \in ModelObjects(item) }
        \cup { << >>, <<Prose>>, <<Fence, Prose, Fence>> }

\* The outcomes of self.model.generate_content(prompt): a text, or an
\* exception (transport, quota).
ModelCalls(item) ==
    {[ok |-> TRUE, text |-> x] : x \in ModelTexts(item)}
        \cup {[ok |-> FALSE, text |-> << >>]}

ApiErrorObject == [error |-> "Error calling Gemini API"]

\* GeminiAPI.generate_content: the response text, or on any exception the
\* string '{"error": "Error calling Gemini API: ..."}'.
generate_content(call) ==
    IF call.ok THEN call.text ELSE <<JsonText(ApiErrorObject)>>

\* Index of the first fence at or after position i (0: none).
RECURSIVE FenceFrom(_, _)
FenceFrom(text, i) ==
    IF i > Len(text) THEN 0
    ELSE IF text[i] = Fence THEN i
    ELSE FenceFrom(text, i + 1)

\* re.search(r'```(?:json)?\s*([\s\S]*?)\s*```', text): the text between
\* the first fence and the next one, when there are two.
CodeBlock(text) ==
    LET open == FenceFrom(text, 1)
        close == IF open = 0 THEN 0 ELSE FenceFrom(text, open + 1)
    IN  IF close = 0 THEN [found |-> FALSE, inner |-> << >>]
        ELSE [found |-> TRUE, inner |-> SubSeq(text, open + 1, close - 1)]

\* json.loads(text): the object, when the text is exactly one JSON text.
JsonLoads(text) ==
    IF Len(text) = 1 /\ text[1].t = "json"
    THEN [raised |-> FALSE, value |-> text[1].v]
    ELSE [raised |-> TRUE, value |-> EmptyDict]

\* get_rule_from_llm: strip, take the inside of a code block if there is
\* one, json.loads; any exception becomes ValueError.
get_rule_from_llm(call) ==
    LET response == generate_content(call)
        block == CodeBlock(response)
        cleaned_response == IF block.found THEN block.inner ELSE response
    IN  JsonLoads(cleaned_response)

\* learn_unknown(item, role, company) -> (rule, rules_path)
learn_unknown(fs, ds, call, role, company) ==
    LET got == get_rule_from_llm(call)
        upd == update_rules(fs, ds, got.value, role, company)
    IN  IF got.raised
        THEN [raised |-> TRUE, fs |-> fs, rule |-> EmptyDict, path |-> << >>]
        ELSE [raised |-> upd.raised, fs |-> upd.fs, rule |-> got.value,
              path |-> IF upd.raised THEN << >> ELSE upd.path]


----------------------------------------------------------------------------
(* The response normalizer of src/api/gemini.py.                           *)
(*                                                                         *)
(* Strings the code looks into (file names, timestamps, severities) are    *)
(* sequences of one-character strings.  Numbers are integers counting      *)
(* thousandths: 0.856 is 856, a confidence_score of 85.6 is 85600.  A JSON  *)
(* value found where a number is expected is a number or something float() *)
(* and / reject (a word, null).                                            *)

Num(m) == [kind |-> "number", milli |-> m]
NotNumber == [kind |-> "text", milli |-> 0]

Digits == {"0", "1", "2", "3", "4", "5", "6", "7", "8", "9"}

UpperCase ==
    <<"A", "B", "C", "D", "E", "F", "G", "H", "I", "J", "K", "L", "M",
      "N", "O", "P", "Q", "R", "S", "T", "U", "V", "W", "X", "Y", "Z">>
LowerCase ==
    <<"a", "b", "c", "d", "e", "f", "g", "h", "i", "j", "k", "l", "m",
      "n", "o", "p", "q", "r", "s", "t", "u", "v", "w", "x", "y", "z">>

\* str.lower()
LowerChar(c) ==
    IF \E i \in DOMAIN UpperCase : UpperCase[i] = c
    THEN LowerCase[CHOOSE i \in DOMAIN UpperCase : UpperCase[i] = c]
    ELSE c
Lower(s) == [i \in DOMAIN s |-> LowerChar(s[i])]

\* "high"
SevHigh ==
    <<"h", "i", "g", "h">>
\* "medium"
SevMedium ==
    <<"m", "e", "d", "i", "u", "m">>
\* "low"
SevLow ==
    <<"l", "o", "w">>
\* "Medium"
DefaultSeverity ==
    <<"M", "e", "d", "i", "u", "m">>

\* round(x, 2) on thousandths: to the nearest hundredth, a tie to the even
\* hundredth (the inputs of the model are exact in binary or no tie).
Round2(m) ==
    LET a == IF m < 0 THEN -m ELSE m
        q == a \div 10
        r == a % 10
        n == IF r > 5 \/ (r = 5 /\ q % 2 = 1) THEN q + 1 ELSE q
    IN  IF m < 0 THEN -(10 * n) ELSE 10 * n

Min(a, b) == IF a <= b THEN a ELSE b
Max(a, b) == IF a >= b THEN a ELSE b

\* The pattern \d{4}-\d{2}-\d{2}T\d{2}:\d{2}:\d{2}, "\\d" standing for a digit.
TimestampPattern ==
    <<"\\d", "\\d", "\\d", "\\d", "-", "\\d", "\\d", "-", "\\d", "\\d", "T",
      "\\d", "\\d", ":", "\\d", "\\d", ":", "\\d", "\\d">>

\* The pattern matches s at position i.
MatchesAt(s, i) ==
    /\ i + Len(TimestampPattern) - 1 <= Len(s)
    /\ \A k \in DOMAIN TimestampPattern :
          IF TimestampPattern[k] = "\\d"
          THEN s[i + k - 1] \in Digits
          ELSE s[i + k - 1] = TimestampPattern[k]

\* re.search(pattern, filename): the leftmost match, if any.
SearchTimestamp(filename) ==
    IF \E i \in DOMAIN filename : MatchesAt(filename, i)
    THEN LET i == CHOOSE i \in DOMAIN filename :
                      /\ MatchesAt(filename, i)
                      /\ \A j \in 1..(i - 1) : ~MatchesAt(filename, j)
         IN  [found |-> TRUE,
              group |-> SubSeq(filename, i, i + Len(TimestampPattern) - 1)]
    ELSE [found |-> FALSE, group |-> << >>]

----------------------------------------------------------------------------
(* standardize_single_response *)

\* The exception of either normalizer: no result is returned.
Raised(fn) == [fn |-> fn, status |-> "raised"]

\* {"status": "error", "message": response["error"]}
ErrorResult(fn, message) == [fn |-> fn, status |-> "error", message |-> message]

SuccessResult(fn, anomaly_detected, baseline_role, anomalies) ==
    [fn |-> fn, status |-> "success",
     analysis |-> [anomaly_detected |-> anomaly_detected,
                   baseline_role |-> baseline_role,
                   anomalies |-> anomalies]]

\* The timestamp of a response: now, or the match in its file name with Z.
SingleTimestamp(response, now) ==
    LET filename == Get(response, "screenshot_filename", << >>)
        timestamp_match == SearchTimestamp(filename)
    IN  IF timestamp_match.found
        THEN timestamp_match.group \o <<"Z">>
        ELSE now

\* A severity mapping in which a missing severity is an unknown one.
SingleConfidenceNoDefault(anomaly, response) ==
    IF "confidence" \in DOMAIN anomaly THEN
        [raised |-> anomaly.confidence.kind # "number",
         milli |-> anomaly.confidence.milli]
    ELSE
        LET severity == Lower(Get(anomaly, "severity", << >>))
            mapped == CASE severity = SevHigh -> 950
                        [] severity = SevMedium -> 750
                        [] severity = SevLow -> 550
                        [] OTHER -> 500
        IN  IF "confidence_score" \in DOMAIN response THEN
                [raised |-> response.confidence_score.kind # "number",
                 milli |-> Min(Max(response.confidence_score.milli \div 100, 0), 1000)]
            ELSE [raised |-> FALSE, milli |-> mapped]

\* The confidence of one anomaly before float() and round(): the anomaly's
\* own, else the response's confidence_score / 100 brought into [0, 1],
\* else the mapping of the lower-cased severity ("Medium" when missing).
\* float() and the division raise on what is not a number.
SingleConfidence(anomaly, response) ==
    IF "confidence" \in DOMAIN anomaly THEN
        [raised |-> anomaly.confidence.kind # "number",
         milli |-> anomaly.confidence.milli]
    ELSE
        LET severity == Lower(Get(anomaly, "severity", DefaultSeverity))
            mapped == CASE severity = SevHigh -> 950
                        [] severity = SevMedium -> 750
                        [] severity = SevLow -> 550
                        [] OTHER -> 500
        IN  IF "confidence_score" \in DOMAIN response THEN
                [raised |-> response.confidence_score.kind # "number",
                 milli |-> Min(Max(response.confidence_score.milli \div 100, 0), 1000)]
            ELSE [raised |-> FALSE, milli |-> mapped]

\* formatted_anomalies.append({...}) of standardize_single_response
SingleFormat(anomaly, response, timestamp) ==
    [type |-> Get(anomaly, "type", "Unknown"),
     explanation |-> Get(anomaly, "explanation", "No explanation provided"),
     confidence |-> Num(Round2(SingleConfidence(anomaly, response).milli)),
     timestamp |-> timestamp]

\* An error result only for a response that carries nothing but the error.
SingleErrorCaseLoose(response) ==
    DOMAIN response \subseteq {"error"} /\ "error" \in DOMAIN response

\* if "error" in response
SingleErrorCase(response) == "error" \in DOMAIN response

standardize_single_response(response, role, now) ==
    IF SingleErrorCase(response) THEN ErrorResult("single", response.error)
    ELSE
        LET timestamp == SingleTimestamp(response, now)
            anomaly_detected ==
                Get(response, "anomaly_detected",
                    Get(response, "is_anomalous", FALSE))
            baseline_role == Get(response, "baseline_role", role)
            anomalies == Get(response, "anomalies", << >>)
        IN  IF \E i \in DOMAIN anomalies :
                   SingleConfidence(anomalies[i], response).raised
            THEN Raised("single")
            ELSE SuccessResult("single", anomaly_detected, baseline_role,
                     [i \in DOMAIN anomalies |->
                         SingleFormat(anomalies[i], response, timestamp)])

----------------------------------------------------------------------------
(* format_standardized_output *)

\* A batch timestamp that ignores the file name.
BatchTimestampClockOnly(result, now) == now

\* The timestamp of one result of a batch: now, or the match in its file
\* name with Z.
BatchTimestamp(result, now) ==
    LET filename == Get(result, "screenshot_filename", << >>)
        timestamp_match == SearchTimestamp(filename)
    IN  IF timestamp_match.found
        THEN timestamp_match.group \o <<"Z">>
        ELSE now

\* The confidence of one anomaly of a batch result before float() and
\* round(); the code of standardize_single_response, repeated.
BatchConfidence(anomaly, result) ==
    IF "confidence" \in DOMAIN anomaly THEN
        [raised |-> anomaly.confidence.kind # "number",
         milli |-> anomaly.confidence.milli]
    ELSE
        LET severity == Lower(Get(anomaly, "severity", DefaultSeverity))
            mapped == CASE severity = SevHigh -> 950
                        [] severity = SevMedium -> 750
                        [] severity = SevLow -> 550
                        [] OTHER -> 500
        IN  IF "confidence_score" \in DOMAIN result THEN
                [raised |-> result.confidence_score.kind # "number",
                 milli |-> Min(Max(result.confidence_score.milli \div 100, 0), 1000)]
            ELSE [raised |-> FALSE, milli |-> mapped]

\* formatted_anomalies.append({...}) of format_standardized_output
BatchFormat(anomaly, result, timestamp) ==
    [type |-> Get(anomaly, "type", "Unknown"),
     explanation |-> Get(anomaly, "explanation", "No explanation provided"),
     confidence |-> Num(Round2(BatchConfidence(anomaly, result).milli)),
     timestamp |-> timestamp]

\* A filter that knows only the new flag.
BatchSkipsNewFlagOnly(result) == ~Get(result, "anomaly_detected", FALSE)

\* if not result.get("is_anomalous", False)
\*    and not result.get("anomaly_detected", False): continue
BatchSkips(result) ==
    /\ ~Get(result, "is_anomalous", FALSE)
    /\ ~Get(result, "anomaly_detected", FALSE)

\* The loop over analysis_results["results"] from result i on: acc holds
\* formatted_anomalies, whether an exception has left the function, and the
\* number of datetime.now() calls made; clk[k] is what the k-th call
\* returns.
RECURSIVE BatchLoop(_, _, _, _)
BatchLoop(results, i, clk, acc) ==
    IF i > Len(results) \/ acc.raised THEN acc
    ELSE
        LET result == results[i]
        IN  IF BatchSkips(result) THEN BatchLoop(results, i + 1, clk, acc)
            ELSE
                LET timestamp == BatchTimestamp(result, clk[acc.reads + 1])
                    anomalies_to_process ==
                        IF "anomalies" \in DOMAIN result
                        THEN result.anomalies ELSE << >>
                    raises ==
                        \E j \in DOMAIN anomalies_to_process :
                            BatchConfidence(anomalies_to_process[j], result).raised
                    formatted ==
                        [j \in DOMAIN anomalies_to_process |->
                            BatchFormat(anomalies_to_process[j], result, timestamp)]
                IN  BatchLoop(results, i + 1, clk,
                        [raised |-> raises,
                         reads |-> acc.reads + 1,
                         anomalies |-> acc.anomalies \o formatted])

\* _add_timestamps_to_anomalies: an anomaly without a timestamp gets now.
add_timestamps_to_anomalies(anomalies, now) ==
    [i \in DOMAIN anomalies |->
        IF "timestamp" \in DOMAIN anomalies[i] THEN anomalies[i]
        ELSE anomalies[i] @@ [timestamp |-> now]]

\* if "error" in analysis_results
BatchErrorCase(analysis_results) == "error" \in DOMAIN analysis_results

format_standardized_output(analysis_results, clk) ==
    IF BatchErrorCase(analysis_results)
    THEN ErrorResult("format", analysis_results.error)
    ELSE IF "results" \in DOMAIN analysis_results THEN
        LET done == BatchLoop(analysis_results.results, 1, clk,
                        [raised |-> FALSE, reads |-> 0, anomalies |-> << >>])
        IN  IF done.raised THEN Raised("format")
            ELSE SuccessResult("format",
                     Get(analysis_results, "overall_anomalous", FALSE),
                     Get(analysis_results, "role_analyzed", "unknown"),
                     done.anomalies)
    ELSE
        SuccessResult("format",
            Get(analysis_results, "anomaly_detected", FALSE),
            Get(analysis_results, "baseline_role", "unknown"),
            add_timestamps_to_anomalies(
                Get(analysis_results, "anomalies", << >>), clk[1]))

----------------------------------------------------------------------------
(* Inputs of the normalizer. *)

MaxAnomalies == 2    \* anomalies in one response with several anomalies
MaxResults == 2      \* per-screenshot results in one batch

\* "shot_2024-05-01T12:00:00.png"
FileStamped ==
    <<"s", "h", "o", "t", "_", "2", "0", "2", "4", "-", "0", "5", "-", "0",
      "1", "T", "1", "2", ":", "0", "0", ":", "0", "0", ".", "p", "n", "g">>
\* "12024-05-01T12:00:009.png"
FileDigitsAround ==
    <<"1", "2", "0", "2", "4", "-", "0", "5", "-", "0", "1", "T", "1", "2",
      ":", "0", "0", ":", "0", "0", "9", ".", "p", "n", "g">>
\* "shot_2024-05-01 12.00.00.png"
FilePlain ==
    <<"s", "h", "o", "t", "_", "2", "0", "2", "4", "-", "0", "5", "-", "0",
      "1", " ", "1", "2", ".", "0", "0", ".", "0", "0", ".", "p", "n", "g">>
\* "2026-11-03T10:00:00Z"
Now1 ==
    <<"2", "0", "2", "6", "-", "1", "1", "-", "0", "3", "T", "1", "0", ":",
      "0", "0", ":", "0", "0", "Z">>
\* "2026-11-03T10:00:01Z"
Now2 ==
    <<"2", "0", "2", "6", "-", "1", "1", "-", "0", "3", "T", "1", "0", ":",
      "0", "0", ":", "0", "1", "Z">>
\* "2020-01-01T00:00:00Z"
OwnTimestamp ==
    <<"2", "0", "2", "0", "-", "0", "1", "-", "0", "1", "T", "0", "0", ":",
      "0", "0", ":", "0", "0", "Z">>
\* "High"
SevStrHigh ==
    <<"H", "i", "g", "h">>
\* "medium"
SevStrMedium ==
    <<"m", "e", "d", "i", "u", "m">>
\* "LOW"
SevStrLow ==
    <<"L", "O", "W">>
\* "critical"
SevStrCritical ==
    <<"c", "r", "i", "t", "i", "c", "a", "l">>

\* The set of dicts with exactly the key k, one for each value.
Field(k, values) == {k :> v : v \in values}

\* A dict of every part of the product, merged.
Merged(A, B, C, D, E) == {a @@ b @@ c @@ d @@ e : a \in A, b \in B, c \in C, d \in D, e \in E}

SeqsUpTo(S, n) == UNION {[1..k -> S] : k \in 0..n}

Missing == {EmptyDict}

\* One anomaly as a model returns it: an own confidence (negative, with
\* three decimals, above 1, not a number) or none, a severity or none.
ConfidenceFields ==
    Missing \cup Field("confidence", {Num(-250), Num(856), Num(1500), NotNumber})
SeverityFields ==
    Missing \cup Field("severity",
                       {SevStrHigh, SevStrMedium, SevStrLow, SevStrCritical})
Anomalies ==
    Merged(Field("type", {"Unusual Task"}), Field("explanation", {"evidence"}),
           ConfidenceFields, SeverityFields, Missing)

\* Anomalies told apart by their type, for responses with several.
FewAnomalies ==
    { [type |-> "t1", explanation |-> "e1", confidence |-> Num(856)],
      [type |-> "t2", severity |-> SevStrHigh],
      [explanation |-> "e3"] }

AnomalyLists ==
    {<<a>> : a \in Anomalies} \cup SeqsUpTo(FewAnomalies, MaxAnomalies)

ScoreFields ==
    Missing \cup Field("confidence_score",
                       {Num(-10000), Num(85600), Num(150000), NotNumber})
FileFields ==
    Missing \cup Field("screenshot_filename",
                       {FileStamped, FileDigitsAround, FilePlain})
FlagFields ==
    { EmptyDict, [anomaly_detected |-> TRUE], [anomaly_detected |-> FALSE],
      [is_anomalous |-> TRUE],
      [anomaly_detected |-> FALSE, is_anomalous |-> TRUE] }
RoleFields == Missing \cup Field("baseline_role", {"designer"})

\* Per-screenshot raw results: every way a confidence resolves, every file
\* name, every flag; and results that carry an error beside other keys.
ConfidenceResponses ==
    Merged(Field("screenshot_filename", {FileStamped}),
           Field("anomaly_detected", {TRUE}), Missing, ScoreFields,
           Field("anomalies", AnomalyLists))
TimestampResponses ==
    Merged(FileFields, Field("anomaly_detected", {TRUE}), Missing, Missing,
           Missing \cup Field("anomalies",
               { <<[type |-> "t1", confidence |-> Num(856)],
                   [type |-> "t2", severity |-> SevStrLow]>>,
                 <<[type |-> "t1", confidence |-> Num(856)],
                   [type |-> "t2", confidence |-> Num(500),
                    timestamp |-> OwnTimestamp]>> }))
FlagResponses ==
    Merged(Field("screenshot_filename", {FilePlain}), FlagFields, RoleFields,
           Missing, Field("anomalies", {<<[type |-> "t2", severity |-> SevStrHigh]>>}))
ErrorResponses ==
    Merged(Field("error", {"quota exceeded"}),
           Missing \cup Field("screenshot_filename", {FileStamped}),
           Missing \cup Field("anomaly_detected", {TRUE}),
           Missing \cup Field("confidence_score", {Num(85600)}),
           Missing \cup Field("anomalies", {<<[type |-> "t2", severity |-> SevStrHigh]>>}))

Responses ==
    ConfidenceResponses \cup TimestampResponses \cup FlagResponses
        \cup ErrorResponses

\* The per-screenshot results of a batch: flagged by the new flag, by the
\* legacy flag, by both, by neither; with and without anomalies.
BatchItems ==
    { [anomaly_detected |-> TRUE, screenshot_filename |-> FileStamped,
       anomalies |-> <<[type |-> "t1", explanation |-> "e1", confidence |-> Num(856)],
                       [type |-> "t2", severity |-> SevStrHigh]>>],
      [is_anomalous |-> TRUE, screenshot_filename |-> FilePlain,
       confidence_score |-> Num(85600),
       anomalies |-> <<[type |-> "t3", severity |-> SevStrLow], [type |-> "t4"]>>],
      [is_anomalous |-> TRUE, screenshot_filename |-> FileDigitsAround,
       anomalies |-> <<[type |-> "t5"]>>],
      [anomaly_detected |-> FALSE, screenshot_filename |-> FileStamped,
       anomalies |-> <<[type |-> "t6", confidence |-> Num(1500)]>>],
      [anomalies |-> <<[type |-> "t7", severity |-> SevStrCritical]>>],
      [anomaly_detected |-> TRUE, screenshot_filename |-> FilePlain],
      [anomaly_detected |-> FALSE, is_anomalous |-> TRUE,
       anomalies |-> <<[explanation |-> "e8", severity |-> SevStrMedium]>>],
      [error |-> "No JSON found in model response",
       screenshot_filename |-> FileStamped],
      [anomaly_detected |-> TRUE,
       anomalies |-> <<[type |-> "t9", confidence |-> NotNumber]>>] }

\* The dicts handed to format_standardized_output as a batch.
BatchInputs ==
    Merged(Field("results", SeqsUpTo(BatchItems, MaxResults)),
           Missing \cup Field("overall_anomalous", {TRUE, FALSE}),
           Missing \cup Field("role_analyzed", {"developer"}),
           Missing, Missing)
        \cup Merged(Field("error", {"quota exceeded"}),
                    Field("results", SeqsUpTo(BatchItems, 1)),
                    Missing \cup Field("overall_anomalous", {TRUE}),
                    Missing, Missing)

\* What successive datetime.now() calls of one normalization return.
ClockRuns ==
    { c \in [1..MaxResults -> {Now1, Now2}] :
        \A i \in 1..(MaxResults - 1) : c[i] = Now2 => c[i + 1] = Now2 }

RequestedRoles == {"developer"}

NoResult == [fn |-> "none", status |-> "none"]

----------------------------------------------------------------------------
(* The detectors of src/api/gemini.py and src/api/gemma3.py.               *)
(*                                                                         *)
(* A raw model response is a sequence of tokens as above, Prose being a    *)
(* stretch of text without braces, with one more kind of token: a stretch  *)
(* of prose that holds a { and a later } without being JSON, such as       *)
(* "the {key} field".                                                      *)

MaxScreenshots == 2    \* screenshots in one batch

Braces == [t |-> "braces"]

\* The screenshots of a folder, as process_screenshots_folder lists them.
Folder == <<FileStamped, FilePlain, FileDigitsAround>>
Screenshot(i) == [filename |-> Folder[((i - 1) % Len(Folder)) + 1]]

\* The JSON objects a model may answer with: flagged by the new flag, by the
\* legacy flag with a confidence_score, not flagged.
DetectorObjects ==
    { [anomaly_detected |-> TRUE,
       anomalies |-> <<[type |-> "Unusual Task", explanation |-> "evidence",
                        severity |-> SevStrHigh]>>],
      [is_anomalous |-> TRUE, confidence_score |-> Num(85600),
       anomalies |-> <<[type |-> "Irregular Activity", severity |-> SevStrLow]>>],
      [anomaly_detected |-> FALSE, anomalies |-> << >>] }

\* The shapes of a raw response: the object bare, in a fence, in a fence
\* with prose around it, in a fence with prose that holds braces before or
\* after it, after prose; and responses that carry no object.
DetectorTexts ==
    UNION { { <<JsonText(v)>>,
              <<Fence, JsonText(v), Fence>>,
              <<Prose, Fence, JsonText(v), Fence, Prose>>,
              <<Braces, Fence, JsonText(v), Fence>>,
              <<Fence, JsonText(v), Fence, Braces>>,
              <<Prose, JsonText(v), Prose>> } : v \in DetectorObjects }
        \cup { << >>, <<Prose>>, <<Braces>>, <<Fence, Prose, Fence>> }

\* The outcomes of one model call.  Hosted: self.model.generate_content
\* returns a text or raises (transport, quota).  Local: subprocess.run
\* returns with exit status 0 or nonzero and what the process wrote to
\* stdout, or raises (TimeoutExpired after 60 seconds, the program could not
\* be spawned).
HostedCalls ==
    {[how |-> "returned", text |-> x] : x \in DetectorTexts}
        \cup {[how |-> "raised", text |-> << >>]}
LocalCalls ==
    {[how |-> "exit0", text |-> x] : x \in DetectorTexts}
        \cup {[how |-> "nonzero", text |-> x] : x \in DetectorTexts}
        \cup {[how |-> h, text |-> << >>] : h \in {"timeout", "nospawn"}}

Backends == {"gemini", "gemma"}
BackendCalls(backend) == IF backend = "gemini" THEN HostedCalls ELSE LocalCalls

GeminiErrorObject == [error |-> "Error calling Gemini API"]
GemmaErrorObject == [error |-> "Error calling Gemma model"]

\* GeminiAPI.call_gemini: response.text, or on any exception the string
\* '{"error": "Error calling Gemini API: ..."}'.
call_gemini(call) ==
    IF call.how = "returned" THEN call.text
    ELSE <<JsonText(GeminiErrorObject)>>

\* GemmaAnomalyDetector.call_gemma: result.stdout whatever the exit status
\* (subprocess.run is called without check), or on any exception the string
\* '{"error": "Error calling Gemma model: ..."}'.
call_gemma(call) ==
    IF call.how \in {"exit0", "nonzero"} THEN call.text
    ELSE <<JsonText(GemmaErrorObject)>>

\* Positions of the tokens that hold a brace.
BracePositions(text) ==
    {i \in DOMAIN text : text[i].t \in {"json", "braces"}}

SetMin(S) == CHOOSE x \in S : \A y \in S : x <= y
SetMax(S) == CHOOSE x \in S : \A y \in S : x >= y

\* re.search(r'({[\s\S]*})', response): the widest span from the first {
\* to the last } of the response.
BraceSpan(response) ==
    LET at == BracePositions(response)
    IN  IF at = {} THEN [found |-> FALSE, span |-> << >>]
        ELSE [found |-> TRUE,
              span |-> SubSeq(response, SetMin(at), SetMax(at))]

NoJsonFound == [error |-> "No JSON found in model response"]
ParseFailed == [error |-> "Failed to parse JSON from model response"]

\* GeminiAPI.extract_json_from_response
gemini_extract_json_from_response(response) ==
    LET json_match == BraceSpan(response)
    IN  IF json_match.found THEN
            IF JsonLoads(json_match.span).raised THEN ParseFailed
            ELSE JsonLoads(json_match.span).value
        ELSE NoJsonFound

\* GemmaAnomalyDetector.extract_json_from_response
gemma_extract_json_from_response(response) ==
    LET json_match == BraceSpan(response)
    IN  IF json_match.found THEN
            IF JsonLoads(json_match.span).raised THEN ParseFailed
            ELSE JsonLoads(json_match.span).value
        ELSE NoJsonFound

\* result[key] = value
SetKey(result, key, value) ==
    [k \in DOMAIN result \cup {key} |-> IF k = key THEN value ELSE result[k]]

\* GeminiAPI.analyze_screenshot_ocr, the prohibited-activities file being
\* there: call the model, extract, add the file name.
gemini_analyze_screenshot_ocr(screenshot_data, call) ==
    SetKey(gemini_extract_json_from_response(call_gemini(call)),
           "screenshot_filename", screenshot_data.filename)

\* GemmaAnomalyDetector.analyze_screenshot_ocr (it also adds
\* screenshot_path, which nothing reads).
gemma_analyze_screenshot_ocr(screenshot_data, call) ==
    SetKey(gemma_extract_json_from_response(call_gemma(call)),
           "screenshot_filename", screenshot_data.filename)

analyze_screenshot_ocr(backend, screenshot_data, call) ==
    IF backend = "gemini"
    THEN gemini_analyze_screenshot_ocr(screenshot_data, call)
    ELSE gemma_analyze_screenshot_ocr(screenshot_data, call)

\* The test of the loop of GeminiAPI.analyze_screenshots_with_ocr:
\* result.get("is_anomalous", False) or result.get("anomaly_detected", False)
GeminiCounts(result) ==
    Get(result, "is_anomalous", FALSE) \/ Get(result, "anomaly_detected", FALSE)

\* The test of the loop of GemmaAnomalyDetector.analyze_screenshots_with_ocr:
\* result.get("is_anomalous", False)
GemmaCounts(result) == Get(result, "is_anomalous", FALSE)

BackendCounts(backend, result) ==
    IF backend = "gemini" THEN GeminiCounts(result) ELSE GemmaCounts(result)

\* sum(1 for r in results if ...)
RECURSIVE CountIf(_, _, _)
CountIf(backend, results, i) ==
    IF i > Len(results) THEN 0
    ELSE (IF BackendCounts(backend, results[i]) THEN 1 ELSE 0)
            + CountIf(backend, results, i + 1)

\* The dict analyze_screenshots_with_ocr returns after its loop.
BatchResult(backend, screenshots, results, overall_anomalous, role) ==
    [results |-> results,
     overall_anomalous |-> overall_anomalous,
     screenshot_count |-> Len(screenshots),
     anomalous_screenshot_count |-> CountIf(backend, results, 1),
     role_analyzed |-> role]

\* GeminiAPI.analyze_text: the whole response parsed, else the widest brace
\* span parsed, else an error that carries the response.
analyze_text(call) ==
    LET response_text == generate_content(call)
        json_match == BraceSpan(response_text)
    IN  IF ~JsonLoads(response_text).raised THEN JsonLoads(response_text).value
        ELSE IF json_match.found THEN
            IF JsonLoads(json_match.span).raised
            THEN [error |-> "Failed to parse JSON from model response",
                  raw_response |-> response_text]
            ELSE JsonLoads(json_match.span).value
        ELSE [error |-> "No JSON found in model response",
              raw_response |-> response_text]

----------------------------------------------------------------------------
(* The parts of the program that a specification leaves at rest. *)

NoBatch == [pc |-> "off"]
NoCalls == [pc |-> "off"]
NoRun == [pc |-> "off"]

IdleDetector == det = NoBatch
IdleRace == procs = NoCalls
IdleMain == run = NoRun

----------------------------------------------------------------------------
(* Initial state and actions of the rule store. *)

NoCall ==
    [op |-> "none", role |-> None, company |-> None, item |-> None,
     rule |-> EmptyDict, raised |-> FALSE, path |-> << >>,
     merged |-> EmptyMerged]

\* The rule documents and directories a run may find.
StoreSeeded ==
    /\ dirs \in DirSets
    /\ docs \in [Paths -> UNION {SeedDocs(p) : p \in Paths}]
    /\ \A p \in Paths :
          /\ docs[p] \in SeedDocs(p)
          /\ Parent(p) \notin dirs => docs[p] = Absent
    /\ nWrites = 0
    /\ last = NoCall

\* load_merged_rules(role, company)
Load(role, company) ==
    /\ last' = [NoCall EXCEPT !.op = "load", !.role = role,
                              !.company = company,
                              !.raised = load_merged_rules(docs, role, company).raised,
                              !.merged = load_merged_rules(docs, role, company)]
    /\ UNCHANGED <<docs, dirs, nWrites>>

\* update_rules(rule, role, company)
AppendRule(rule, role, company) ==
    LET r == update_rules(docs, dirs, rule, role, company)
    IN  /\ docs' = r.fs
        /\ nWrites' = IF r.raised THEN nWrites ELSE nWrites + 1
        /\ last' = [NoCall EXCEPT !.op = "append", !.role = role,
                                  !.company = company, !.rule = rule,
                                  !.raised = r.raised, !.path = r.path]
        /\ UNCHANGED dirs

\* learn_unknown(item, role, company), the model answering `call`
LearnUnknown(item, call, role, company) ==
    LET r == learn_unknown(docs, dirs, call, role, company)
    IN  /\ docs' = r.fs
        /\ nWrites' = IF r.raised THEN nWrites ELSE nWrites + 1
        /\ last' = [NoCall EXCEPT !.op = "learn", !.role = role,
                                  !.company = company, !.item = item,
                                  !.rule = r.rule, !.raised = r.raised,
                                  !.path = r.path]
        /\ UNCHANGED dirs

Loads ==
    \E role \in RoleArgs, company \in CompanyArgs : Load(role, company)

Appends ==
    /\ nWrites < MaxWrites
    /\ \E rule \in Rules, role \in RoleArgs, company \in CompanyArgs :
          AppendRule(rule, role, company)

Learns ==
    /\ nWrites < MaxWrites
    /\ \E item \in Terms, role \in RoleArgs, company \in CompanyArgs :
          \E call \in ModelCalls(item) : LearnUnknown(item, call, role, company)

\* The normalizer at rest.
IdleNorm ==
    /\ input = EmptyDict /\ clock = << >> /\ out = NoResult
    /\ IdleDetector /\ IdleRace /\ IdleMain

\* The rule store under load and append.
Init == StoreSeeded /\ IdleNorm

Next ==
    \/ Loads /\ UNCHANGED <<normVars, detectVars, raceVars, mainVars>>
    \/ Appends /\ UNCHANGED <<normVars, detectVars, raceVars, mainVars>>

Spec == Init /\ [][Next]_vars

\* The learning step: rules are appended by callers and by learn_unknown.
\* The run starts from a rule directory with at most the role's documents
\* seeded.
InitLearn ==
    /\ StoreSeeded
    /\ IdleNorm
    /\ << >> \in dirs
    /\ docs[<<"baseline.json">>] \in {Absent, FlatDoc(<<"baseline.json">>)}
    /\ docs[<<"developer", "acme.json">>]
          \in {Absent, FlatDoc(<<"developer", "acme.json">>)}

NextLearn ==
    \/ Appends /\ UNCHANGED <<normVars, detectVars, raceVars, mainVars>>
    \/ Learns /\ UNCHANGED <<normVars, detectVars, raceVars, mainVars>>

SpecLearn == InitLearn /\ [][NextLearn]_vars

----------------------------------------------------------------------------
(* Initial state and actions of the normalizer. *)

\* The rule store at rest.
IdleStore ==
    /\ docs = [p \in Paths |-> Absent]
    /\ dirs = {<< >>}
    /\ nWrites = 0
    /\ last = NoCall

InitNorm ==
    /\ input \in Responses \cup BatchInputs
    /\ clock = << >>
    /\ out = NoResult
    /\ IdleStore
    /\ IdleDetector /\ IdleRace /\ IdleMain

\* detector.standardize_single_response(result, role) on a per-screenshot
\* raw result
StandardizeSingle(role, clk) ==
    /\ "results" \notin DOMAIN input
    /\ out' = standardize_single_response(input, role, clk[1])
    /\ clock' = clk
    /\ UNCHANGED input

\* format_standardized_output(analysis_results) on a batch, or on a
\* per-screenshot raw result (the direct-response branch)
FormatStandardized(clk) ==
    /\ out' = format_standardized_output(input, clk)
    /\ clock' = clk
    /\ UNCHANGED input

NextNorm ==
    \/ \E role \in RequestedRoles, clk \in ClockRuns :
          /\ StandardizeSingle(role, clk)
          /\ UNCHANGED <<storeVars, detectVars, raceVars, mainVars>>
    \/ \E clk \in ClockRuns :
          /\ FormatStandardized(clk)
          /\ UNCHANGED <<storeVars, detectVars, raceVars, mainVars>>

SpecNorm == InitNorm /\ [][NextNorm]_vars

----------------------------------------------------------------------------
(* Initial state and actions of the detectors. *)

\* A detector of either backend, about to analyze a batch of screenshots
\* for the role.
InitDetect ==
    /\ det \in { [pc |-> "loop", backend |-> b,
                  screenshots |-> [i \in 1..n |-> Screenshot(i)],
                  role |-> "developer",
                  results |-> << >>, overall_anomalous |-> FALSE,
                  hows |-> << >>,
                  call |-> [how |-> "none", text |-> << >>],
                  batch |-> EmptyDict,
                  parsed |-> EmptyDict] :
                b \in Backends, n \in 0..MaxScreenshots }
    /\ IdleStore
    /\ input = EmptyDict /\ clock = << >> /\ out = NoResult
    /\ IdleRace /\ IdleMain

\* One turn of the loop of analyze_screenshots_with_ocr: analyze the next
\* screenshot, the model call going as `call`, append the result and update
\* overall_anomalous.
AnalyzeNext(call) ==
    /\ det.pc = "loop"
    /\ Len(det.results) < Len(det.screenshots)
    /\ LET screenshot == det.screenshots[Len(det.results) + 1]
           result == analyze_screenshot_ocr(det.backend, screenshot, call)
       IN  det' = [det EXCEPT
                      !.results = Append(@, result),
                      !.overall_anomalous =
                          IF BackendCounts(det.backend, result) THEN TRUE ELSE @,
                      !.hows = Append(@, call.how),
                      !.call = call]

\* The return of analyze_screenshots_with_ocr, after the last screenshot.
ReturnBatch ==
    /\ det.pc = "loop"
    /\ Len(det.results) = Len(det.screenshots)
    /\ det' = [det EXCEPT
                  !.pc = "returned",
                  !.batch = BatchResult(det.backend, det.screenshots,
                                        det.results, det.overall_anomalous,
                                        det.role)]

\* GeminiAPI.analyze_text(prompt), the model answering `call`.
AnalyzeText(call) ==
    /\ det.pc = "loop"
    /\ det.backend = "gemini"
    /\ det.results = << >>
    /\ det' = [det EXCEPT
                  !.pc = "parsed",
                  !.parsed = [raw |-> generate_content(call),
                              value |-> analyze_text(call)]]

TextCalls ==
    {[ok |-> TRUE, text |-> x] : x \in DetectorTexts}
        \cup {[ok |-> FALSE, text |-> << >>]}

NextDetect ==
    \/ \E call \in BackendCalls(det.backend) :
          /\ AnalyzeNext(call)
          /\ UNCHANGED <<storeVars, normVars, raceVars, mainVars>>
    \/ ReturnBatch /\ UNCHANGED <<storeVars, normVars, raceVars, mainVars>>
    \/ \E call \in TextCalls :
          /\ AnalyzeText(call)
          /\ UNCHANGED <<storeVars, normVars, raceVars, mainVars>>

SpecDetect == InitDetect /\ [][NextDetect]_vars

----------------------------------------------------------------------------
(* The run of src/main.py.                                                 *)

\* A command line: which of --single, --screenshots and --prohibited are
\* given, whether the paths given exist, the --model, whether
\* GOOGLE_API_KEY is set, and where --output points (nowhere: stdout; a
\* file in a directory that exists; a file in a directory that does not).
CommandLines ==
    [single : BOOLEAN, screenshots : BOOLEAN, prohibited : BOOLEAN,
     exist : BOOLEAN, model : {"gemma", "gemini"}, api_key : BOOLEAN,
     output : {None, "out.json", "nodir/out.json"}]

\* The command lines explored: the well-formed ones of either mode with
\* every --output, and one for each way of being rejected.
Invocations ==
    { a \in CommandLines :
        \/ /\ a.exist /\ a.model = "gemma" /\ a.single # a.screenshots
           /\ a.prohibited = a.screenshots
        \/ /\ a.exist /\ a.model = "gemma" /\ a.output = None /\ ~a.api_key
           /\ ~a.single /\ (a.screenshots => ~a.prohibited)
        \/ /\ ~a.exist /\ a.model = "gemma" /\ a.output = None /\ a.api_key
           /\ a.single # a.screenshots /\ a.prohibited = a.screenshots
        \/ /\ a.exist /\ a.model = "gemini" /\ a.output = None
           /\ a.single /\ ~a.screenshots /\ ~a.prohibited
        \/ /\ a.exist /\ a.model = "gemma" /\ a.output = None /\ a.api_key
           /\ a.single /\ a.screenshots /\ a.prohibited }

\* parse_arguments: parser.error (exit status 2) unless --screenshots or
\* --single is given, and --prohibited unless --single is.
parse_arguments(a) ==
    IF ~a.screenshots /\ ~a.single THEN "usage"
    ELSE IF ~a.prohibited /\ ~a.single THEN "usage"
    ELSE "ok"

\* validate_paths: sys.exit(1) when a path given does not exist.
validate_paths(a) == a.exist

\* get_detector: GeminiAPI() raises ValueError without GOOGLE_API_KEY, and
\* main calls it outside its try.
get_detector(a) == [raised |-> a.model = "gemini" /\ ~a.api_key]

\* The text OCR finds on every screenshot.
OcrText == "Discord VSCode"

\* process_single_screenshot: the screenshot data of the one file.
process_single_screenshot(a) ==
    [filename |-> Folder[1], ocr_text |-> OcrText]

\* process_screenshots_folder: the list of the screenshot data of the n
\* image files of the folder.
process_screenshots_folder(n) ==
    [i \in 1..n |-> [filename |-> Screenshot(i).filename, ocr_text |-> OcrText]]

NoOutput == [emitted |-> FALSE]

\* A save that writes and prints nothing.
SaveNothing(result, output_path) == [raised |-> FALSE, output |-> NoOutput]

\* save_output(result, output_path): json.dump into the file, or print;
\* open(output_path, 'w') raises when the directory does not exist.
save_output(result, output_path) ==
    IF output_path = None
    THEN [raised |-> FALSE,
          output |-> [emitted |-> TRUE, to |-> "stdout", value |-> result]]
    ELSE IF output_path = "nodir/out.json"
    THEN [raised |-> TRUE, output |-> NoOutput]
    ELSE [raised |-> FALSE,
          output |-> [emitted |-> TRUE, to |-> output_path, value |-> result]]

\* The collection of ocr_texts: from the dict of the single mode; in folder
\* mode result is a list and result.get raises AttributeError.
CollectOcrTexts(a, result) ==
    IF a.single
    THEN [raised |-> FALSE,
          ocr_texts |-> IF "ocr_text" \in DOMAIN result
                        THEN <<result.ocr_text>> ELSE << >>]
    ELSE [raised |-> TRUE, ocr_texts |-> << >>]

\* The outcomes of get_relevant_words_from_ocr for one OCR text: the list
\* the model returns, or ValueError (no JSON array in the response; GeminiAPI()
\* without GOOGLE_API_KEY).
TermLists ==
    { << >>, <<"Discord">>, <<"VSCode">>, <<"Discord", "VSCode">>,
      <<"Discord", "Discord">>, <<"">> }
ExtractOutcomes(a) ==
    {[raised |-> TRUE, relevant |-> << >>]}
        \cup IF a.api_key
             THEN {[raised |-> FALSE, relevant |-> l] : l \in TermLists}
             ELSE {}

\* relevant_items.update(relevant)
Update(items, relevant) == items \cup {relevant[i] : i \in DOMAIN relevant}

\* rule.get('item') or rule.get('keyword')
ItemOrKeyword(rule) ==
    IF Get(rule, "item", None) \notin {None, ""} THEN rule.item
    ELSE Get(rule, "keyword", None)

\* known_items of main: the items of rules_data.get('rules',
\* rules_data.get('allowed', [])).
KnownItems(rules_data) ==
    LET listed == Get(rules_data, "rules", Get(rules_data, "allowed", << >>))
    IN  {ItemOrKeyword(listed[i]) : i \in DOMAIN listed}

\* unknowns = [item for item in relevant_items if item and item not in known_items]
Unknowns(relevant_items, known_items) ==
    {item \in relevant_items : item # "" /\ item \notin known_items}

\* The role's rule document main reads, rules/<role>/baseline.json, --role
\* being left at its default; main passes no company.
MainRole == "developer"
MainRulesPath == <<MainRole, "baseline.json">>

\* What a run may find there: nothing, a file that is not JSON, a document
\* of either schema that names Discord, a document with both schemas.
MainDocs ==
    { Absent, Malformed,
      Json([context |-> MainRole,
            allowed |-> <<[keyword |-> "VSCode"]>>,
            prohibited |-> <<[keyword |-> "Discord"]>>]),
      Json([context |-> MainRole, description |-> "",
            rules |-> <<[type |-> "prohibited", item |-> "Discord"]>>]),
      Json([context |-> MainRole,
            allowed |-> <<[keyword |-> "VSCode"]>>,
            prohibited |-> <<[keyword |-> "Discord"]>>,
            rules |-> <<[type |-> "allowed", item |-> "Slack"]>>]) }

\* The outcomes of the model call of get_rule_from_llm explored in a run: a
\* rule for the item, prose without JSON, a failure of the API.
ClassifyCalls(item) ==
    { [ok |-> TRUE,
       text |-> <<Fence, JsonText([type |-> "prohibited", item |-> item]), Fence>>],
      [ok |-> TRUE, text |-> <<Prose>>],
      [ok |-> FALSE, text |-> << >>] }

----------------------------------------------------------------------------
(* Initial state and actions of a run of main().                           *)

\* The process has been started with a command line, in a working directory
\* with or without the role's rule directory and document, the folder (if
\* one is named) holding some screenshots.
InitMain ==
    /\ run \in { [pc |-> "start", args |-> a, folder |-> n, code |-> -1,
                  result |-> EmptyDict, output |-> NoOutput,
                  ocr_texts |-> << >>, extracted |-> 0,
                  relevant_items |-> {}, rules_data |-> EmptyDict,
                  unknowns |-> {}, calls |-> << >>, failed |-> "nothing"] :
                a \in Invocations, n \in 0..MaxScreenshots }
    /\ run.args.single => run.folder = 0
    /\ dirs \in DirSets
    /\ docs \in {[p \in Paths |-> IF p = MainRulesPath THEN d ELSE Absent] :
                    d \in MainDocs}
    /\ Parent(MainRulesPath) \notin dirs => docs[MainRulesPath] = Absent
    /\ nWrites = 0
    /\ last = NoCall
    /\ input = EmptyDict /\ clock = << >> /\ out = NoResult
    /\ IdleDetector /\ IdleRace

\* The process ends with an exit status.
Exit(code, failed) ==
    [run EXCEPT !.pc = "exited", !.code = code, !.failed = failed]

\* main, up to its try: parse_arguments, validate_paths, get_detector.
Start ==
    /\ run.pc = "start"
    /\ run' = IF parse_arguments(run.args) = "usage" THEN Exit(2, "usage")
              ELSE IF ~validate_paths(run.args) THEN Exit(1, "path")
              ELSE IF get_detector(run.args).raised THEN Exit(1, "detector")
              ELSE [run EXCEPT !.pc = "process"]
    /\ UNCHANGED <<docs, dirs, nWrites, last>>

\* The OCR of the screenshot or of the folder.
ProcessScreenshots ==
    /\ run.pc = "process"
    /\ run' = [run EXCEPT
                  !.pc = "save",
                  !.result = IF run.args.single
                             THEN process_single_screenshot(run.args)
                             ELSE process_screenshots_folder(run.folder)]
    /\ UNCHANGED <<docs, dirs, nWrites, last>>

\* save_output(result, args.output); an exception ends the run in the
\* handler of main (exit status 1).
SaveOutput ==
    /\ run.pc = "save"
    /\ LET saved == save_output(run.result, run.args.output)
       IN  run' = IF saved.raised THEN Exit(1, "save")
                  ELSE [run EXCEPT !.pc = "collect", !.output = saved.output]
    /\ UNCHANGED <<docs, dirs, nWrites, last>>

\* The collection of the OCR texts of the result.
CollectTexts ==
    /\ run.pc = "collect"
    /\ LET got == CollectOcrTexts(run.args, run.result)
       IN  run' = IF got.raised THEN Exit(1, "collect")
                  ELSE [run EXCEPT !.pc = "extract", !.ocr_texts = got.ocr_texts]
    /\ UNCHANGED <<docs, dirs, nWrites, last>>

\* One turn of `for ocr_text in ocr_texts`: get_relevant_words_from_ocr in
\* its try, an exception being logged and the loop going on.
ExtractTerms(outcome) ==
    /\ run.pc = "extract"
    /\ run.extracted < Len(run.ocr_texts)
    /\ run' = [run EXCEPT
                  !.extracted = @ + 1,
                  !.relevant_items =
                      IF outcome.raised THEN @ ELSE Update(@, outcome.relevant),
                  !.failed = IF outcome.raised THEN "extract" ELSE @]
    /\ UNCHANGED <<docs, dirs, nWrites, last>>

\* After the loop: read the role's rule document and list the unknowns.
\* json.load raises on a file that is not JSON.
ReadKnown ==
    /\ run.pc = "extract"
    /\ run.extracted = Len(run.ocr_texts)
    /\ LET f == docs[MainRulesPath]
           rules_data == IF f.state = "json" THEN f.data ELSE EmptyDict
       IN  run' = IF f.state = "malformed" THEN Exit(1, "known")
                  ELSE [run EXCEPT
                           !.pc = "learn",
                           !.rules_data = rules_data,
                           !.unknowns = Unknowns(run.relevant_items,
                                                 KnownItems(rules_data))]
    /\ UNCHANGED <<docs, dirs, nWrites, last>>

\* One turn of `for unknown in unknowns`: learn_unknown(unknown, role,
\* company), outside any try of its own.
LearnOne(unknown, call) ==
    /\ run.pc = "learn"
    /\ unknown \in run.unknowns
    /\ LET r == learn_unknown(docs, dirs, call, MainRole, None)
       IN  /\ run' = IF r.raised
                     THEN [Exit(1, "learn") EXCEPT !.calls = Append(@, unknown)]
                     ELSE [run EXCEPT !.calls = Append(@, unknown),
                                      !.unknowns = @ \ {unknown}]
           /\ docs' = r.fs
           /\ nWrites' = IF r.raised THEN nWrites ELSE nWrites + 1
    /\ UNCHANGED <<dirs, last>>

\* The end of main: the process exits with status 0.
Finish ==
    /\ run.pc = "learn"
    /\ run.unknowns = {}
    /\ run' = Exit(0, run.failed)
    /\ UNCHANGED <<docs, dirs, nWrites, last>>

NextMain ==
    \/ Start /\ UNCHANGED <<normVars, detectVars, raceVars>>
    \/ ProcessScreenshots /\ UNCHANGED <<normVars, detectVars, raceVars>>
    \/ SaveOutput /\ UNCHANGED <<normVars, detectVars, raceVars>>
    \/ CollectTexts /\ UNCHANGED <<normVars, detectVars, raceVars>>
    \/ \E outcome \in ExtractOutcomes(run.args) :
          ExtractTerms(outcome) /\ UNCHANGED <<normVars, detectVars, raceVars>>
    \/ ReadKnown /\ UNCHANGED <<normVars, detectVars, raceVars>>
    \/ \E unknown \in run.unknowns : \E call \in ClassifyCalls(unknown) :
          LearnOne(unknown, call) /\ UNCHANGED <<normVars, detectVars, raceVars>>
    \/ Finish /\ UNCHANGED <<normVars, detectVars, raceVars>>

SpecMain == InitMain /\ [][NextMain]_vars

----------------------------------------------------------------------------
(* update_rules called by two callers at once (two runs of main, say).     *)
(* Nothing in update_rules locks the document, so the steps of the calls   *)
(* interleave: the read of the document, the open for writing (which       *)
(* truncates the file) and the dump of the new content.                    *)

Callers == {1, 2}

\* A content that keeps nothing of what the file held.
CreateAnew(f, role) == NewRulesData(role)

\* if rules_path.exists(): rules_data = json.load(f)
\* else: rules_data = {"context": ..., "description": "", "rules": []}
LoadOrCreate(f, role) ==
    IF f.state = "json" THEN f.data ELSE NewRulesData(role)

\* A file that has been opened with 'w' and not written yet is empty, which
\* is not JSON.
Truncated == Malformed

NotCalling ==
    [pc |-> "idle", rule |-> EmptyDict, role |-> None, company |-> None,
     rules_data |-> EmptyDict, overlapped |-> FALSE, clobbered |-> FALSE]

\* The callers are about to call; the documents of the global and of the
\* role scope are absent or of either schema, their directories exist.
InitRace ==
    /\ dirs = {<< >>, <<"developer">>}
    /\ docs \in [Paths -> UNION {SeedDocs(p) : p \in Paths}]
    /\ \A p \in Paths :
          IF p \in {RulesPath(r, None) : r \in RoleArgs}
          THEN docs[p] \in SeedDocs(p) \ {Malformed}
          ELSE docs[p] = Absent
    /\ procs = [calls |-> [c \in Callers |-> NotCalling], before |-> docs]
    /\ nWrites = 0
    /\ last = NoCall
    /\ input = EmptyDict /\ clock = << >> /\ out = NoResult
    /\ IdleDetector /\ IdleMain

\* Some call is between its start and its return.
InCall(c) == procs.calls[c].pc \in {"called", "loaded", "opened"}

\* update_rules(rule, role, company) begins: the path is resolved.
CallUpdate(c, rule, role, company) ==
    /\ procs.calls[c].pc = "idle"
    /\ LET others == {d \in Callers \ {c} : InCall(d)}
       IN  procs' = [procs EXCEPT !.calls =
              [d \in Callers |->
                  IF d = c
                  THEN [NotCalling EXCEPT !.pc = "called", !.rule = rule,
                                          !.role = role, !.company = company,
                                          !.overlapped = others # {}]
                  ELSE IF d \in others
                  THEN [procs.calls[d] EXCEPT !.overlapped = TRUE]
                  ELSE procs.calls[d]]]
    /\ UNCHANGED <<docs, dirs, nWrites, last>>

\* The call reads the document (or starts a new one) and appends the rule
\* to what it has read; json.load raises on a file that is not JSON.
ReadRules(c) ==
    /\ procs.calls[c].pc = "called"
    /\ LET me == procs.calls[c]
           f == docs[RulesPath(me.role, me.company)]
       IN  procs' = [procs EXCEPT !.calls[c] =
              IF f.state = "malformed" THEN [me EXCEPT !.pc = "raised"]
              ELSE [me EXCEPT !.pc = "loaded",
                              !.rules_data = AddRule(LoadOrCreate(f, me.role),
                                                     me.rule)]]
    /\ UNCHANGED <<docs, dirs, nWrites, last>>

\* open(rules_path, 'w'): the file is created or truncated.
OpenForWrite(c) ==
    /\ procs.calls[c].pc = "loaded"
    /\ LET me == procs.calls[c]
           rules_path == RulesPath(me.role, me.company)
       IN  IF Parent(rules_path) \notin dirs
           THEN /\ procs' = [procs EXCEPT !.calls[c].pc = "raised"]
                /\ UNCHANGED docs
           ELSE /\ procs' = [procs EXCEPT !.calls[c].pc = "opened"]
                /\ docs' = [docs EXCEPT ![rules_path] = Truncated]
    /\ UNCHANGED <<dirs, nWrites, last>>

\* json.dump(rules_data, f) and the close of the file: the file holds what
\* the call wrote, `written` being that content, or, when another call has
\* written to the same file since this one opened it, possibly a mix of
\* both that is not JSON.
DumpRules(c, written) ==
    /\ procs.calls[c].pc = "opened"
    /\ LET me == procs.calls[c]
           rules_path == RulesPath(me.role, me.company)
       IN  /\ written \in {Json(me.rules_data)}
                             \cup IF me.clobbered THEN {Malformed} ELSE {}
           /\ docs' = [docs EXCEPT ![rules_path] = written]
           /\ procs' = [procs EXCEPT !.calls =
                 [d \in Callers |->
                     IF d = c THEN [me EXCEPT !.pc = "returned"]
                     ELSE IF /\ procs.calls[d].pc = "opened"
                             /\ RulesPath(procs.calls[d].role,
                                          procs.calls[d].company) = rules_path
                     THEN [procs.calls[d] EXCEPT !.clobbered = TRUE]
                     ELSE procs.calls[d]]]
    /\ nWrites' = nWrites + 1
    /\ UNCHANGED <<dirs, last>>

NextRace ==
    \/ \E c \in Callers, rule \in Rules, role \in RoleArgs :
          /\ CallUpdate(c, rule, role, None)
          /\ UNCHANGED <<normVars, detectVars, mainVars>>
    \/ \E c \in Callers :
          ReadRules(c) /\ UNCHANGED <<normVars, detectVars, mainVars>>
    \/ \E c \in Callers :
          OpenForWrite(c) /\ UNCHANGED <<normVars, detectVars, mainVars>>
    \/ \E c \in Callers :
          \E written \in {Malformed, Json(procs.calls[c].rules_data)} :
              DumpRules(c, written) /\ UNCHANGED <<normVars, detectVars, mainVars>>

SpecRace == InitRace /\ [][NextRace]_vars

----------------------------------------------------------------------------
(* Properties of the rule store. *)

\* Every entry of list a is an entry of list b.
Contains(b, a) == \A i \in DOMAIN a : \E j \in DOMAIN b : b[j] = a[i]

InList(x, l) == \E j \in DOMAIN l : l[j] = x

\* a is a subsequence of b: its entries occur in b, unmodified and in the
\* same relative order.
RECURSIVE IsSubseq(_, _)
IsSubseq(a, b) ==
    IF a = << >> THEN TRUE
    ELSE IF b = << >> THEN FALSE
    ELSE IF Head(a) = Head(b) THEN IsSubseq(Tail(a), Tail(b))
    ELSE IsSubseq(a, Tail(b))

\* The three-tier resolution as the specification words it.
ScopeDocument(role, company) ==
    CASE role # None /\ company # None -> <<role, company \o ".json">>
      [] role # None /\ company = None -> <<role, "baseline.json">>
      [] OTHER -> <<"baseline.json">>

\* Some rule of some document names the term as its item or keyword.
Mentioned(fs, term) ==
    \E p \in Paths :
        /\ fs[p].state = "json"
        /\ \E k \in {"allowed", "prohibited", "rules"} :
              \E i \in DOMAIN Get(fs[p].data, k, << >>) :
                  \/ Get(fs[p].data[k][i], "item", None) = term
                  \/ Get(fs[p].data[k][i], "keyword", None) = term

\* C1: whatever the three rule documents hold, the allowed and prohibited
\* lists of load(role, company) contain every entry of load(role, None),
\* whose lists contain every entry of load(None, None).
C1_ScopeWidening ==
    \A role \in RoleArgs, company \in CompanyArgs :
        LET full == load_merged_rules(docs, role, company)
            mid == load_merged_rules(docs, role, None)
            base == load_merged_rules(docs, None, None)
        IN  /\ ~full.raised =>
                  /\ ~mid.raised
                  /\ Contains(full.allowed, mid.allowed)
                  /\ Contains(full.prohibited, mid.prohibited)
            /\ ~mid.raised =>
                  /\ ~base.raised
                  /\ Contains(mid.allowed, base.allowed)
                  /\ Contains(mid.prohibited, base.prohibited)

\* C1 witness: a load for a role and a company has returned entries of all
\* three documents.
C1_Witness ==
    /\ last.op = "load" /\ ~last.raised
    /\ last.role = "developer" /\ last.company = "acme"
    /\ Len(last.merged.allowed) = 3
    /\ Len(load_merged_rules(docs, "developer", None).allowed) = 2
    /\ Len(load_merged_rules(docs, None, None).allowed) = 1

\* C2: once append(rule, role, company) has written the rule into the flat
\* rules list of a document, load(role, company) returns the rule in its
\* merged result.
C2_AppendedRuleIsLoaded ==
    [][(last'.op = "append" /\ ~last'.raised) =>
          LET m == load_merged_rules(docs', last'.role, last'.company)
          IN  ~m.raised =>
                  \/ InList(last'.rule, m.allowed)
                  \/ InList(last'.rule, m.prohibited)]_storeVars

\* C3: append writes exactly the document of the three-tier resolution,
\* creates it when it does not exist, returns its path, and leaves the
\* other documents unchanged (for a target that is not a malformed file).
C3_AppendWritesScopeDocument ==
    [][(last'.op = "append"
          /\ docs[ScopeDocument(last'.role, last'.company)] # Malformed) =>
          LET target == ScopeDocument(last'.role, last'.company)
          IN  /\ ~last'.raised
              /\ last'.path = target
              /\ docs'[target].state = "json"
              /\ docs[target] = Absent =>
                    docs'[target].data.rules = <<last'.rule>>
              /\ \A q \in Paths \ {target} : docs'[q] = docs[q]]_storeVars

\* C3, where the directory of the target exists: the statement of C3 holds.
C3_HoldsWhereDirectoryExists ==
    [][(last'.op = "append"
          /\ docs[ScopeDocument(last'.role, last'.company)] # Malformed
          /\ Parent(ScopeDocument(last'.role, last'.company)) \in dirs) =>
          LET target == ScopeDocument(last'.role, last'.company)
          IN  /\ ~last'.raised
              /\ last'.path = target
              /\ docs'[target].state = "json"
              /\ docs[target] = Absent =>
                    docs'[target].data.rules = <<last'.rule>>
              /\ \A q \in Paths \ {target} : docs'[q] = docs[q]]_storeVars

\* C4: rule documents are append-only.  In every step of append and
\* learnUnknown calls run one at a time, a document that exists keeps
\* existing, keeps every other key, and keeps every rule of its flat list
\* unmodified and in the same relative order; a successful call lengthens
\* the flat list of its target by exactly one.
C4_AppendOnly ==
    [][/\ \A p \in Paths :
            /\ docs[p] = Malformed => docs'[p] = Malformed
            /\ docs[p].state = "json" =>
                  /\ docs'[p].state = "json"
                  /\ \A k \in DOMAIN docs[p].data \ {"rules"} :
                        /\ k \in DOMAIN docs'[p].data
                        /\ docs'[p].data[k] = docs[p].data[k]
            /\ IsSubseq(FlatRules(docs[p]), FlatRules(docs'[p]))
       /\ (last'.op \in {"append", "learn"} /\ ~last'.raised) =>
            Len(FlatRules(docs'[last'.path]))
                = Len(FlatRules(docs[last'.path])) + 1]_storeVars

\* C4 witness: a seeded flat document has grown by an append and by a
\* learnUnknown.
C4_Witness ==
    /\ last.op = "learn" /\ ~last.raised
    /\ Len(FlatRules(docs[last.path])) = MaxWrites + 1
    /\ FlatRules(docs[last.path])[1] = FlatRules(FlatDoc(last.path))[1]
    /\ \E i \in DOMAIN FlatRules(docs[last.path]) :
           FlatRules(docs[last.path])[i] \in Rules

\* C5: learnUnknown(term, role, company), for a term no existing rule
\* mentions, appends exactly one rule, whose item is the term, to the scoped
\* document, leaves every other entry as it was and returns the rule and
\* the path written.
C5_LearnAppendsRuleForTerm ==
    [][(last'.op = "learn" /\ ~last'.raised /\ ~Mentioned(docs, last'.item)) =>
          LET target == ScopeDocument(last'.role, last'.company)
          IN  /\ last'.path = target
              /\ FlatRules(docs'[target])
                    = Append(FlatRules(docs[target]), last'.rule)
              /\ Get(last'.rule, "item", None) = last'.item
              /\ \A q \in Paths \ {target} : docs'[q] = docs[q]]_storeVars

----------------------------------------------------------------------------
(* Properties of the normalizer. *)

\* The last normalization was of a single screenshot, or of a batch (the
\* branch of format_standardized_output for a dict with results).
NormalizedSingle == out.fn = "single"
NormalizedBatch == out.fn = "format" /\ "results" \in DOMAIN input

\* A result is flagged anomalous by the new or by the legacy flag.
Flagged(result) ==
    \/ Get(result, "anomaly_detected", FALSE)
    \/ Get(result, "is_anomalous", FALSE)

\* The anomalies of the flagged results from result i on, in result order,
\* each with the result it comes from and the position of that result.
RECURSIVE FlaggedAnomaliesFrom(_, _)
FlaggedAnomaliesFrom(results, i) ==
    IF i > Len(results) THEN << >>
    ELSE LET result == results[i]
             own == IF Flagged(result)
                    THEN [j \in DOMAIN Get(result, "anomalies", << >>) |->
                             [anomaly |-> result.anomalies[j],
                              result |-> result, index |-> i]]
                    ELSE << >>
         IN  own \o FlaggedAnomaliesFrom(results, i + 1)

\* What the anomalies of the output were normalized from: each input
\* anomaly with the response or result that contains it.
Sources ==
    IF NormalizedSingle
    THEN [j \in DOMAIN Get(input, "anomalies", << >>) |->
             [anomaly |-> input.anomalies[j], result |-> input, index |-> 1]]
    ELSE FlaggedAnomaliesFrom(input.results, 1)

Produced == out.analysis.anomalies

\* s and t are the same string up to the case of their letters.
SameIgnoringCase(s, t) ==
    /\ Len(s) = Len(t)
    /\ \A i \in DOMAIN s : LowerChar(s[i]) = LowerChar(t[i])

\* The precedence of the confidence of an anomaly in its container, a
\* missing severity giving `missing`: the own confidence; else the
\* confidence_score / 100 in [0, 1]; else by severity.
ResolvedConfidence(anomaly, container, missing) ==
    IF "confidence" \in DOMAIN anomaly THEN anomaly.confidence.milli
    ELSE IF "confidence_score" \in DOMAIN container THEN
        LET scaled == container.confidence_score.milli \div 100
        IN  IF scaled < 0 THEN 0 ELSE IF scaled > 1000 THEN 1000 ELSE scaled
    ELSE IF "severity" \notin DOMAIN anomaly THEN missing
    ELSE IF SameIgnoringCase(anomaly.severity, SevHigh) THEN 950
    ELSE IF SameIgnoringCase(anomaly.severity, SevMedium) THEN 750
    ELSE IF SameIgnoringCase(anomaly.severity, SevLow) THEN 550
    ELSE 500

\* C6: every anomaly of a result of single-screenshot or batch
\* normalization has a confidence in [0, 1] with at most 2 decimals,
\* whatever the own confidence, the severity and the confidence_score.
C6_ConfidenceInUnitInterval ==
    (out.status = "success" /\ (NormalizedSingle \/ NormalizedBatch)) =>
        \A k \in DOMAIN Produced :
            /\ Produced[k].confidence.kind = "number"
            /\ Produced[k].confidence.milli >= 0
            /\ Produced[k].confidence.milli <= 1000
            /\ Produced[k].confidence.milli % 10 = 0

\* C6, for the anomalies that carry no confidence of their own: the
\* statement of C6 holds.
C6_HoldsWithoutOwnConfidence ==
    (out.status = "success" /\ (NormalizedSingle \/ NormalizedBatch)) =>
        \A k \in DOMAIN Produced :
            "confidence" \notin DOMAIN Sources[k].anomaly =>
                /\ Produced[k].confidence.kind = "number"
                /\ Produced[k].confidence.milli >= 0
                /\ Produced[k].confidence.milli <= 1000
                /\ Produced[k].confidence.milli % 10 = 0

\* C7, as amended: the confidence is the own confidence when present, else
\* confidence_score / 100 in [0, 1] when the container carries one, else
\* the severity mapping matched case-insensitively (high 0.95, medium 0.75,
\* low 0.55, any other 0.5), a missing severity counting as Medium (0.75);
\* rounded to 2 decimals, the same in single and in batch normalization.
C7_ConfidencePrecedence ==
    (out.status = "success" /\ (NormalizedSingle \/ NormalizedBatch)) =>
        /\ Len(Produced) = Len(Sources)
        /\ \A k \in DOMAIN Produced :
              Produced[k].confidence
                  = Num(Round2(ResolvedConfidence(Sources[k].anomaly,
                                                  Sources[k].result, 750)))

\* C7 as stated: the same, a missing severity giving 0.5.
C7_AsStated ==
    (out.status = "success" /\ (NormalizedSingle \/ NormalizedBatch)) =>
        /\ Len(Produced) = Len(Sources)
        /\ \A k \in DOMAIN Produced :
              Produced[k].confidence
                  = Num(Round2(ResolvedConfidence(Sources[k].anomaly,
                                                  Sources[k].result, 500)))

\* C7 witness: an anomaly with neither confidence nor severity, in a
\* response without confidence_score, has been normalized to 0.75.
C7_Witness ==
    /\ out.status = "success" /\ NormalizedSingle
    /\ \E k \in DOMAIN Produced :
          /\ DOMAIN Sources[k].anomaly \cap {"confidence", "severity"} = {}
          /\ "confidence_score" \notin DOMAIN input
          /\ Produced[k].confidence = Num(750)

\* C8: when the file name of a result contains YYYY-MM-DDTHH:MM:SS, every
\* anomaly normalized from the result carries that substring with Z, whatever
\* the clock says; and the anomalies normalized from one result always
\* carry one timestamp.
C8_TimestampFromFilename ==
    (out.status = "success" /\ (NormalizedSingle \/ NormalizedBatch)) =>
        /\ Len(Produced) = Len(Sources)
        /\ \A k \in DOMAIN Produced :
              LET filename == Get(Sources[k].result, "screenshot_filename", << >>)
              IN  (\E i \in DOMAIN filename : MatchesAt(filename, i)) =>
                      \E i \in DOMAIN filename :
                          /\ MatchesAt(filename, i)
                          /\ Produced[k].timestamp
                                = SubSeq(filename, i, i + 18) \o <<"Z">>
        /\ \A k, l \in DOMAIN Produced :
              Sources[k].index = Sources[l].index =>
                  Produced[k].timestamp = Produced[l].timestamp

\* C8 witness: a batch has been normalized in which two anomalies come from
\* one result with a stamped file name, and the clock read for it says
\* something else.
C8_Witness ==
    /\ out.status = "success" /\ NormalizedBatch
    /\ \E k, l \in DOMAIN Produced :
          /\ k # l
          /\ Sources[k].index = Sources[l].index
          /\ Get(Sources[k].result, "screenshot_filename", << >>) = FileStamped
          /\ Produced[k].timestamp # clock[1]
          /\ Produced[k].timestamp # clock[MaxResults]

\* C9: for an input that carries an error key, whatever else it carries,
\* normalization (single or batch) returns status error with the value of
\* the error key as message, no analysis and so no anomaly.
C9_ErrorInputGivesErrorResult ==
    (out.fn \in {"single", "format"} /\ "error" \in DOMAIN input) =>
        /\ out.status = "error"
        /\ out.message = input.error
        /\ DOMAIN out = {"fn", "status", "message"}

\* C9 witness: a response that carries an error beside a flag and anomalies
\* has been normalized.
C9_Witness ==
    /\ out.fn = "single" /\ out.status = "error"
    /\ {"error", "anomaly_detected", "anomalies"} \subseteq DOMAIN input

\* C10: the anomaly list of a batch holds exactly the anomalies of the
\* results flagged by anomaly_detected or is_anomalous, in result order,
\* and none of the others; the batch-level anomaly_detected is the
\* overall_anomalous flag of the batch, whatever the list holds.
C10_BatchKeepsFlaggedResults ==
    (out.status = "success" /\ NormalizedBatch) =>
        /\ Len(Produced) = Len(FlaggedAnomaliesFrom(input.results, 1))
        /\ \A k \in DOMAIN Produced :
              LET from == FlaggedAnomaliesFrom(input.results, 1)[k].anomaly
              IN  /\ Produced[k].type = Get(from, "type", "Unknown")
                  /\ Produced[k].explanation
                        = Get(from, "explanation", "No explanation provided")
        /\ out.analysis.anomaly_detected
              = Get(input, "overall_anomalous", FALSE)

\* C10 witness: a batch of a result flagged only by the legacy flag and a
\* result flagged by neither, both with anomalies, has been normalized;
\* the list holds the anomalies of the first alone, and the batch-level
\* flag is the overall_anomalous of the input, here false.
C10_Witness ==
    /\ out.status = "success" /\ NormalizedBatch
    /\ Len(input.results) = 2
    /\ "anomaly_detected" \notin DOMAIN input.results[1]
    /\ Get(input.results[1], "is_anomalous", FALSE)
    /\ ~Flagged(input.results[2])
    /\ Get(input.results[2], "anomalies", << >>) # << >>
    /\ Len(Produced) = Len(input.results[1].anomalies)
    /\ Produced # << >>
    /\ out.analysis.anomaly_detected = FALSE

----------------------------------------------------------------------------
(* Properties of the detectors. *)

\* The last model call returned a text (it did not fail).
CallReturnedText == det.call.how \in {"returned", "exit0"}

\* The result of the screenshot analyzed last, and that screenshot.
LastResult == det.results[Len(det.results)]
LastScreenshot == det.screenshots[Len(det.results)]

\* The JSON objects that stand alone inside a fenced block of the text.
FencedObjects(text) ==
    {text[i + 1].v : i \in {k \in 1..(Len(text) - 2) :
                              /\ text[k] = Fence
                              /\ text[k + 1].t = "json"
                              /\ text[k + 2] = Fence}}

\* C11: for every raw response that holds a fenced block whose interior is
\* a valid JSON object, extraction returns exactly that object (the detector
\* adding the file name to it), also when prose outside the fence holds
\* braces.
C11_FencedObjectIsExtracted ==
    (det.results # << >> /\ CallReturnedText) =>
        \A v \in FencedObjects(det.call.text) :
            LastResult = SetKey(v, "screenshot_filename", LastScreenshot.filename)

\* C11, for the responses without a brace outside the fence: the statement
\* of C11 holds.
C11_HoldsWithoutBracesOutside ==
    (det.results # << >> /\ CallReturnedText
        /\ \A i \in DOMAIN det.call.text : det.call.text[i] # Braces) =>
        \A v \in FencedObjects(det.call.text) :
            LastResult = SetKey(v, "screenshot_filename", LastScreenshot.filename)

\* The raw response of the last model call, as the detector received it.
RawResponse ==
    IF det.backend = "gemini" THEN call_gemini(det.call) ELSE call_gemma(det.call)

\* None of the strategies the specification names (the whole string, a
\* fenced block, the widest brace span) yields a JSON object from the text.
NoStrategyYields(text) ==
    /\ ~(Len(text) = 1 /\ text[1].t = "json")
    /\ FencedObjects(text) = {}
    /\ \/ BracePositions(text) = {}
       \/ SetMin(BracePositions(text)) # SetMax(BracePositions(text))
       \/ text[SetMin(BracePositions(text))].t # "json"

\* C12: when no strategy yields a JSON object from the raw response, the
\* detector's result for the screenshot is an error result that carries the
\* raw text as raw_response.
C12_FailedExtractionCarriesRawResponse ==
    (det.results # << >> /\ NoStrategyYields(RawResponse)) =>
        /\ "error" \in DOMAIN LastResult
        /\ "raw_response" \in DOMAIN LastResult
        /\ LastResult.raw_response = RawResponse

\* C12, without the raw text: the result is an error result with nothing
\* but the message and the file name, never an object without error.
C12_FailedExtractionGivesErrorResult ==
    (det.results # << >> /\ NoStrategyYields(RawResponse)) =>
        /\ DOMAIN LastResult = {"error", "screenshot_filename"}
        /\ LastResult.error \in {NoJsonFound.error, ParseFailed.error}

\* C12, for analyze_text: its error result does carry the raw text.
C12_AnalyzeTextCarriesRawResponse ==
    (det.pc = "parsed" /\ NoStrategyYields(det.parsed.raw)) =>
        /\ DOMAIN det.parsed.value = {"error", "raw_response"}
        /\ det.parsed.value.raw_response = det.parsed.raw

\* A per-screenshot result is flagged anomalous by the new or by the
\* legacy flag.
FlaggedResult(result) ==
    \/ Get(result, "anomaly_detected", FALSE)
    \/ Get(result, "is_anomalous", FALSE)

\* C13: a batch returns one raw result per record, in input order, with
\* screenshot_count the number of results; overall_anomalous is true exactly
\* when some result is flagged by anomaly_detected or is_anomalous, and
\* anomalous_screenshot_count is the number of such results; the two
\* backends compute the same flag and count from the same results.
C13_BatchSummary ==
    det.pc = "returned" =>
        /\ Len(det.batch.results) = Len(det.screenshots)
        /\ det.batch.screenshot_count = Len(det.batch.results)
        /\ \A i \in DOMAIN det.batch.results :
              det.batch.results[i].screenshot_filename
                  = det.screenshots[i].filename
        /\ det.batch.overall_anomalous
              = (\E i \in DOMAIN det.batch.results :
                    FlaggedResult(det.batch.results[i]))
        /\ det.batch.anomalous_screenshot_count
              = Cardinality({i \in DOMAIN det.batch.results :
                                FlaggedResult(det.batch.results[i])})
        /\ CountIf("gemini", det.batch.results, 1)
              = CountIf("gemma", det.batch.results, 1)

\* C13, for the hosted backend alone: the statement of C13 holds.
C13_HoldsForHostedBackend ==
    (det.pc = "returned" /\ det.backend = "gemini") =>
        /\ Len(det.batch.results) = Len(det.screenshots)
        /\ det.batch.screenshot_count = Len(det.batch.results)
        /\ \A i \in DOMAIN det.batch.results :
              det.batch.results[i].screenshot_filename
                  = det.screenshots[i].filename
        /\ det.batch.overall_anomalous
              = (\E i \in DOMAIN det.batch.results :
                    FlaggedResult(det.batch.results[i]))
        /\ det.batch.anomalous_screenshot_count
              = Cardinality({i \in DOMAIN det.batch.results :
                                FlaggedResult(det.batch.results[i])})

\* The ways a model call fails: the hosted call raises; the local process
\* times out, cannot be spawned, or exits with a nonzero status.
FailedHows == {"raised", "timeout", "nospawn", "nonzero"}

\* C14: a model-call failure on one screenshot gives an error result for
\* that screenshot (it carries an error key and normalizes to status
\* error), and the batch still returns a result for every screenshot.
C14_CallFailureGivesErrorResult ==
    /\ \A i \in DOMAIN det.results :
          det.hows[i] \in FailedHows =>
              /\ "error" \in DOMAIN det.results[i]
              /\ standardize_single_response(det.results[i], det.role, Now1).status
                    = "error"
    /\ det.pc = "returned" => Len(det.batch.results) = Len(det.screenshots)

\* C14, for the failures that raise (transport or quota failure, timeout,
\* spawn failure): the statement of C14 holds.
C14_HoldsForRaisedFailures ==
    /\ \A i \in DOMAIN det.results :
          det.hows[i] \in FailedHows \ {"nonzero"} =>
              /\ "error" \in DOMAIN det.results[i]
              /\ standardize_single_response(det.results[i], det.role, Now1).status
                    = "error"
    /\ det.pc = "returned" => Len(det.batch.results) = Len(det.screenshots)

----------------------------------------------------------------------------
(* Properties of the run of main(). *)

\* The terms learn_unknown has been called with.
Called == {run.calls[i] : i \in DOMAIN run.calls}

\* C15: a failure inside the learning loop (term extraction for one OCR
\* text, classification of one term, persistence of one rule) is caught for
\* that item: the run still hands every unknown term to learn_unknown and
\* ends with exit status 0.
C15_LearningFailureIsCaughtPerItem ==
    (run.pc = "exited" /\ run.failed \in {"extract", "learn"}) =>
        /\ run.code = 0
        /\ Unknowns(run.relevant_items, KnownItems(run.rules_data)) \subseteq Called

\* C15, for term extraction alone: its failure is caught, and the run ends
\* with exit status 0.
C15_HoldsForTermExtraction ==
    (run.pc = "exited" /\ run.failed = "extract") => run.code = 0

MentionedInData(data, term) ==
    \E k \in {"allowed", "prohibited", "rules"} :
        \E i \in DOMAIN Get(data, k, << >>) :
            \/ Get(data[k][i], "item", None) = term
            \/ Get(data[k][i], "keyword", None) = term

\* The data of the role's rule document as it is on disk.
RoleDocumentData ==
    IF docs[MainRulesPath].state = "json" THEN docs[MainRulesPath].data
    ELSE EmptyDict

\* C17: learn_unknown is never called for a term that some rule list of the
\* role's document already names, nor twice for one term; and a run that
\* completes has called it for every extracted term the document did not
\* name.
C17_LearnsExactlyTheUnknownTerms ==
    [][/\ \A t \in run.relevant_items :
             run'.calls = Append(run.calls, t) =>
                 /\ ~MentionedInData(RoleDocumentData, t)
                 /\ t \notin Called
       /\ (run.pc = "learn" /\ run'.pc = "exited" /\ run'.code = 0) =>
             Called = {t \in run.relevant_items :
                          t # "" /\ ~MentionedInData(run.rules_data, t)}]_vars

\* C17, for a role document that keeps its rules in the flat list alone, or
\* does not exist: the statement of C17 holds.
C17_HoldsForFlatDocuments ==
    [][(DOMAIN RoleDocumentData \cap {"allowed", "prohibited"} = {}) =>
          /\ \A t \in run.relevant_items :
                run'.calls = Append(run.calls, t) =>
                    /\ ~MentionedInData(RoleDocumentData, t)
                    /\ t \notin Called
          /\ (run.pc = "learn" /\ run'.pc = "exited" /\ run'.code = 0) =>
                Called = {t \in run.relevant_items :
                             t # "" /\ ~MentionedInData(run.rules_data, t)}]_vars

\* The run was given --screenshots with --prohibited, both existing, the
\* folder holding screenshots, with the API key set and an output it can
\* write.
FolderModeRun ==
    /\ run.args.screenshots /\ run.args.prohibited /\ ~run.args.single
    /\ run.args.exist /\ run.folder > 0
    /\ run.args.api_key
    /\ run.args.output # "nodir/out.json"

\* C20: a run ends with exit status 1 only for a missing path or flag or an
\* unhandled processing error; a folder-mode run over an existing folder in
\* which every model call succeeds emits its output, runs the learning loop
\* over the OCR text of every screenshot and ends with exit status 0.
C20_ExitStatus ==
    run.pc = "exited" =>
        /\ run.code = 1 =>
              run.failed \in {"path", "detector", "save", "collect", "known", "learn"}
        /\ (FolderModeRun /\ run.failed \notin {"extract", "learn", "known"}) =>
              /\ run.output.emitted
              /\ run.extracted = run.folder
              /\ run.code = 0

\* C20, for the single mode: a run given --single, in which every step
\* succeeds, emits its output, extracts the terms of the screenshot's OCR
\* text and ends with exit status 0.
C20_HoldsForSingleMode ==
    (run.pc = "exited" /\ run.args.single /\ run.args.exist
        /\ run.failed \notin {"detector", "save", "extract", "learn", "known"}) =>
        /\ run.output.emitted
        /\ run.extracted = 1
        /\ run.code = 0

----------------------------------------------------------------------------
(* Properties of update_rules under concurrent callers. *)

\* The callers whose call has returned after writing the document p.
ReturnedOn(p) ==
    {c \in Callers :
        /\ procs.calls[c].pc = "returned"
        /\ RulesPath(procs.calls[c].role, procs.calls[c].company) = p}

\* The calls have run strictly one after another: none began while another
\* was in progress, and none is in progress.
StrictlySequential ==
    \A c \in Callers : ~procs.calls[c].overlapped /\ ~InCall(c)

\* C18: when the calls of update_rules run strictly one after another, no
\* update is lost: every document holds the rules it held before, in order,
\* and after them one rule for each call that wrote it, the rule of every
\* such call among them.  (That interleaved calls can lose an update is the
\* state C18_Witness describes.)
C18_SequentialAppendsLoseNothing ==
    StrictlySequential =>
        \A p \in Paths :
            /\ \A c \in ReturnedOn(p) :
                  InList(procs.calls[c].rule, FlatRules(docs[p]))
            /\ Len(FlatRules(docs[p]))
                  = Len(FlatRules(procs.before[p])) + Cardinality(ReturnedOn(p))
            /\ SubSeq(FlatRules(docs[p]), 1, Len(FlatRules(procs.before[p])))
                  = FlatRules(procs.before[p])

\* C18 witness: two calls on one document have interleaved, both have
\* returned, the document is well-formed, and the rule of one of them is not
\* in it: a lost update.
C18_Witness ==
    \E c, d \in Callers, p \in Paths :
        /\ c # d
        /\ {c, d} \subseteq ReturnedOn(p)
        /\ procs.calls[c].overlapped /\ procs.calls[d].overlapped
        /\ procs.calls[c].rule # procs.calls[d].rule
        /\ docs[p].state = "json"
        /\ ~InList(procs.calls[c].rule, FlatRules(docs[p]))
        /\ InList(procs.calls[d].rule, FlatRules(docs[p]))
        /\ Len(FlatRules(docs[p])) = Len(FlatRules(procs.before[p])) + 1

----------------------------------------------------------------------------
(* The shape of what the normalizer returns. *)

\* The canonical analysis result: a boolean anomaly_detected, a
\* baseline_role, and anomalies that each have all of type, explanation,
\* confidence and timestamp.
CanonicalAnalysis(analysis) ==
    /\ {"anomaly_detected", "baseline_role", "anomalies"} \subseteq DOMAIN analysis
    /\ analysis.anomaly_detected \in BOOLEAN
    /\ \A k \in DOMAIN analysis.anomalies :
          {"type", "explanation", "confidence", "timestamp"}
              \subseteq DOMAIN analysis.anomalies[k]

\* C19: every result with status success, whichever of
\* standardize_single_response, the batch branch and the direct-response
\* branch of format_standardized_output produced it, has the canonical
\* analysis.
C19_SuccessIsCanonical ==
    out.status = "success" =>
        /\ "analysis" \in DOMAIN out
        /\ CanonicalAnalysis(out.analysis)

\* C19, for standardize_single_response and the batch branch: the statement
\* of C19 holds.
C19_HoldsForSingleAndBatch ==
    (out.status = "success" /\ (NormalizedSingle \/ NormalizedBatch)) =>
        /\ "analysis" \in DOMAIN out
        /\ CanonicalAnalysis(out.analysis)

----------------------------------------------------------------------------
(* Batches and their normalization: a batch built by                       *)
(* analyze_screenshots_with_ocr of either backend and handed to            *)
(* format_standardized_output, and GeminiAPI.parse_direct_responses, which  *)
(* builds its batch from response texts and hands it to                    *)
(* format_standardized_output itself.                                      *)
(*                                                                         *)
(* In a direct response the opening fence with the json tag is told apart   *)
(* from a bare fence: parse_direct_responses looks for ```json only.        *)

JsonFence == [t |-> "jsonfence"]

\* The JSON objects of direct responses: those of the detectors, and objects
\* whose flags disagree or are missing beside anomalies.
DirectObjects ==
    DetectorObjects \cup
    { [anomaly_detected |-> FALSE, is_anomalous |-> TRUE,
       anomalies |-> <<[type |-> "Policy Violation", severity |-> SevStrMedium]>>],
      [anomalies |-> <<[type |-> "Temporal Irregularity", severity |-> SevStrLow]>>] }

\* The shapes of a direct response: the object bare, in a json fence, in a
\* json fence with prose around, in a bare fence; and no object at all.
DirectTexts ==
    UNION { { <<JsonText(v)>>,
              <<JsonFence, JsonText(v), Fence>>,
              <<Prose, JsonFence, JsonText(v), Fence, Prose>>,
              <<Fence, JsonText(v), Fence>> } : v \in DirectObjects }
        \cup { << >>, <<Prose>>, <<JsonFence, Prose, Fence>> }

\* Index of the first token at or after position i that holds ``` (0: none).
RECURSIVE AnyFenceFrom(_, _)
AnyFenceFrom(text, i) ==
    IF i > Len(text) THEN 0
    ELSE IF text[i] \in {Fence, JsonFence} THEN i
    ELSE AnyFenceFrom(text, i + 1)

\* Index of the first ```json at or after position i (0: none).
RECURSIVE JsonFenceFrom(_, _)
JsonFenceFrom(text, i) ==
    IF i > Len(text) THEN 0
    ELSE IF text[i] = JsonFence THEN i
    ELSE JsonFenceFrom(text, i + 1)

\* re.search(r'```json\s*([\s\S]*?)\s*```', response): the text between the
\* first ```json and the next ```, when there are both.
JsonBlock(response) ==
    LET open == JsonFenceFrom(response, 1)
        close == IF open = 0 THEN 0 ELSE AnyFenceFrom(response, open + 1)
    IN  IF close = 0 THEN [found |-> FALSE, inner |-> << >>]
        ELSE [found |-> TRUE, inner |-> SubSeq(response, open + 1, close - 1)]

\* The body of the loop of parse_direct_responses for one response: the
\* object of the json block or of the whole response, or the error result
\* of the except clause.
ParseDirect(response) ==
    LET json_match == JsonBlock(response)
        loaded == IF json_match.found THEN JsonLoads(json_match.inner)
                  ELSE JsonLoads(response)
    IN  IF loaded.raised
        THEN [error |-> "Failed to parse JSON from response",
              raw_response |-> response]
        ELSE loaded.value

\* The test of the loop of parse_direct_responses:
\* result.get("anomaly_detected", False)
DirectCounts(result) == Get(result, "anomaly_detected", FALSE)

\* sum(1 for r in results if r.get("anomaly_detected", False))
RECURSIVE CountDirect(_, _)
CountDirect(results, i) ==
    IF i > Len(results) THEN 0
    ELSE (IF DirectCounts(results[i]) THEN 1 ELSE 0) + CountDirect(results, i + 1)

\* The analysis_results dict of parse_direct_responses.
DirectBatch(responses, results, overall_anomalous, role) ==
    [results |-> results,
     overall_anomalous |-> overall_anomalous,
     screenshot_count |-> Len(responses),
     anomalous_screenshot_count |-> CountDirect(results, 1),
     role_analyzed |-> role]

\* What successive datetime.now() calls of one batch normalization return,
\* one call per result at most.
BatchClocks ==
    { c \in [1..MaxScreenshots -> {Now1, Now2}] :
        \A i \in 1..(MaxScreenshots - 1) : c[i] = Now2 => c[i + 1] = Now2 }

\* A detector about to build a batch: by analyze_screenshots_with_ocr over
\* the screenshots of a folder, or by parse_direct_responses over `count`
\* response texts.
InitBatch ==
    /\ det \in { [pc |-> "loop", by |-> "analyze", backend |-> b,
                  screenshots |-> [i \in 1..n |-> Screenshot(i)],
                  role |-> "developer",
                  results |-> << >>, overall_anomalous |-> FALSE,
                  hows |-> << >>,
                  call |-> [how |-> "none", text |-> << >>],
                  batch |-> EmptyDict,
                  parsed |-> EmptyDict,
                  count |-> n, responses |-> << >>] :
                b \in Backends, n \in 0..MaxScreenshots }
          \cup
               { [pc |-> "direct", by |-> "direct", backend |-> "gemini",
                  screenshots |-> << >>,
                  role |-> "developer",
                  results |-> << >>, overall_anomalous |-> FALSE,
                  hows |-> << >>,
                  call |-> [how |-> "none", text |-> << >>],
                  batch |-> EmptyDict,
                  parsed |-> EmptyDict,
                  count |-> n, responses |-> << >>] :
                n \in 0..MaxScreenshots }
    /\ IdleStore
    /\ input = EmptyDict /\ clock = << >> /\ out = NoResult
    /\ IdleRace /\ IdleMain

\* format_standardized_output(batch) on the batch that
\* analyze_screenshots_with_ocr returned.
NormalizeBatch(clk) ==
    /\ det.pc = "returned"
    /\ det' = [det EXCEPT !.pc = "normalized"]
    /\ input' = det.batch
    /\ clock' = clk
    /\ out' = format_standardized_output(det.batch, clk)

\* One turn of the loop of parse_direct_responses, on the next response of
\* its argument: parse it, update overall_anomalous, append the result.
ParseNext(response) ==
    /\ det.pc = "direct"
    /\ Len(det.results) < det.count
    /\ LET result == ParseDirect(response)
       IN  det' = [det EXCEPT
                      !.responses = Append(@, response),
                      !.results = Append(@, result),
                      !.overall_anomalous =
                          IF DirectCounts(result) THEN TRUE ELSE @]
    /\ UNCHANGED normVars

\* The end of parse_direct_responses, after the last response: build
\* analysis_results and return format_standardized_output(analysis_results).
ParseReturn(clk) ==
    /\ det.pc = "direct"
    /\ Len(det.results) = det.count
    /\ LET analysis_results ==
               DirectBatch(det.responses, det.results, det.overall_anomalous,
                           det.role)
       IN  /\ det' = [det EXCEPT !.pc = "normalized", !.batch = analysis_results]
           /\ input' = analysis_results
           /\ clock' = clk
           /\ out' = format_standardized_output(analysis_results, clk)

NextBatch ==
    \/ \E call \in BackendCalls(det.backend) :
          /\ AnalyzeNext(call)
          /\ UNCHANGED <<storeVars, normVars, raceVars, mainVars>>
    \/ ReturnBatch /\ UNCHANGED <<storeVars, normVars, raceVars, mainVars>>
    \/ \E clk \in BatchClocks :
          /\ NormalizeBatch(clk)
          /\ UNCHANGED <<storeVars, raceVars, mainVars>>
    \/ \E response \in DirectTexts :
          /\ ParseNext(response)
          /\ UNCHANGED <<storeVars, raceVars, mainVars>>
    \/ \E clk \in BatchClocks :
          /\ ParseReturn(clk)
          /\ UNCHANGED <<storeVars, raceVars, mainVars>>

SpecBatch == InitBatch /\ [][NextBatch]_vars

----------------------------------------------------------------------------
(* Properties of normalized batches. *)

\* A batch has been built and normalized, and the result is a success.
BatchSuccess == det.pc = "normalized" /\ out.status = "success"

\* C21: in every batch-level success result, a non-empty anomalies list
\* implies that anomaly_detected is true, for batches built by
\* analyze_screenshots_with_ocr of either backend and for batches built by
\* parse_direct_responses.
C21_AnomaliesImplyDetected ==
    (BatchSuccess /\ out.analysis.anomalies # << >>) =>
        out.analysis.anomaly_detected = TRUE

\* C21, for batches built by GeminiAPI.analyze_screenshots_with_ocr: the
\* statement of C21 holds.
C21_HoldsForHostedAnalyzeBatches ==
    (/\ BatchSuccess
     /\ det.by = "analyze" /\ det.backend = "gemini"
     /\ out.analysis.anomalies # << >>) =>
        out.analysis.anomaly_detected = TRUE

----------------------------------------------------------------------------
(* Properties of what learn_unknown persists. *)

\* A Rule: a kind, allowed or prohibited (the key "type" of the rule
\* prompt), and an item text.
IsRule(entry) ==
    /\ Get(entry, "type", None) \in {"allowed", "prohibited"}
    /\ Get(entry, "item", None) \notin {None, ""}

\* C22: every entry that learn_unknown persists in a rule document is a
\* Rule, an object with a kind in {allowed, prohibited} and an item text; in
\* particular the error object that generate_content returns for a failed
\* model call is never appended to a rule document.
C22_LearnPersistsOnlyRules ==
    [][(last'.op = "learn" /\ ~last'.raised) =>
          \A p \in Paths :
              \A i \in DOMAIN FlatRules(docs'[p]) :
                  i > Len(FlatRules(docs[p])) => IsRule(FlatRules(docs'[p])[i])
      ]_storeVars

\* C22, for model calls that return a text: whatever learn_unknown persists
\* other than the error object of generate_content is a Rule.
C22_HoldsForAnsweredCalls ==
    [][(last'.op = "learn" /\ ~last'.raised /\ last'.rule # ApiErrorObject) =>
          \A p \in Paths :
              \A i \in DOMAIN FlatRules(docs'[p]) :
                  i > Len(FlatRules(docs[p])) => IsRule(FlatRules(docs'[p])[i])
      ]_storeVars

====
